---------------------------- MODULE Spec2Model ----------------------------
(***************************************************************************)
(* Model of the NIFTY 50 prediction dashboard (predictor.py,               *)
(* web_generator.py and the script.py variant of the predictor).           *)
(*                                                                         *)
(* Numbers.  Prices, forecasts, trends and percentages are IEEE-754        *)
(* doubles, as in the code: every sum, difference, product and quotient is *)
(* rounded to the nearest double, ties to even, and the comparisons and    *)
(* the fixed-point formatting act on the exact binary value.  The doubles  *)
(* are carried out on natural numbers of any size, which are sequences of  *)
(* limbs.  Money(n) is the double of the decimal literal of n paise, so    *)
(* Money(195) is the float 1.95.                                           *)
(***************************************************************************)
EXTENDS Integers, Sequences, FiniteSets, TLC

VARIABLES
    pc,                  \* position of the call being modelled
    predictions,         \* the forecast mapping, label -> price
    current_price,       \* the price the forecast is compared with
    changePct,           \* change_pct as get_recommendation computed it
    recommendation,      \* result of NIFTYWebPredictor.get_recommendation
    web_recommendation,  \* result of WebDashboardGenerator.get_recommendation
    data,                \* the Close column of the price series, oldest first
    volume,              \* the Volume column of the price series
    trend,               \* the local trend / recent_change of the predictor
    error,               \* the exception a call raised, "" when it returned
    callee,              \* the function the call is made to
    noise,               \* the noise draws of the latest forecast, per label
    rng,                 \* numpy's global generator: its seed and draws made
    calls,               \* how many calls of the predictor were made
    prev_predictions,    \* the forecast the previous call returned
    provider,            \* what the price history provider answers in this run
    fetch_count,         \* how often the provider was asked in this run
    stages,              \* the work of the pipeline this run has completed, in order
    charts,              \* the three charts generate_dashboard built
    created_forecast,    \* the forecast as make_predictions returned it
    now,                 \* the clock reading get_market_status took
    market_status,       \* result of get_market_status
    html_content,        \* the page generate_dashboard_html returned
    docs_dir,            \* whether the directory docs/ exists
    index_html,          \* the file docs/index.html
    data_json,           \* the file docs/data.json
    prediction_history,  \* the file docs/prediction_history.json
    result,              \* how run_daily_prediction ended, "" while it runs
    history_before,      \* docs/prediction_history.json as it was at the start
    job,                 \* state of the workflow's 'Generate dashboard' step
    job_script           \* the text of the command that step runs

\* the arguments, locals and results of the functions called
callVars == <<predictions, current_price, changePct, recommendation, web_recommendation,
              data, volume, trend, error, callee>>

\* the generator and the bookkeeping of repeated predictor calls
repeatVars == <<noise, rng, calls, prev_predictions>>

\* the state of a run of run_daily_prediction and the files it writes
runVars == <<provider, fetch_count, stages, charts, created_forecast, now, market_status,
             html_content, docs_dir, index_html, data_json, prediction_history, result>>

\* the workflow step around a run, and the history file as the run found it
jobVars == <<history_before, job, job_script>>

vars == <<pc, callVars, repeatVars, runVars, jobVars>>

(***************************************************************************)
(* Bounds of the model.                                                    *)
(***************************************************************************)
\* largest distance between a forecast value and the price, in paise when
\* the price is 2.00 and in rupees when it is 200.0
MaxDev == 4

\* longest price series handed to make_predictions (window of 10)
MaxLen == 11

\* longest price series handed to make_sample_predictions (window of 5)
MaxLenScript == 6

\* number of distinct closes a price series is built from
MaxClose == 3

\* largest factor the closes are scaled by
MaxScale == 8

\* most calls of a predictor on the same series
MaxCalls == 2

\* longest price series the provider answers with in a run of predictor.py
MaxFeed == 3

\* longest history stored in docs/prediction_history.json before a call
MaxStored == 101

\* most calls of save_prediction_log on the same file
MaxSaves == 3

\* longest price series the provider answers with in a run of the script.py
\* variant, whose predictor needs five rows
MaxFeedScript == 5

(***************************************************************************)
(* Natural numbers of any size, as sequences of limbs, least significant   *)
(* limb first; the number 0 is the empty sequence and the last limb of any *)
(* other number is not 0.                                                  *)
(***************************************************************************)
\* a limb holds LimbBits bits
LimbBits == 14
Base == 16384

Abs(x) == IF x < 0 THEN 0 - x ELSE x

Min(a, b) == IF a <= b THEN a ELSE b

RECURSIVE Trim(_)
\* a limb sequence without its leading zero limbs
Trim(a) ==
    IF a = <<>> THEN a
    ELSE IF a[Len(a)] = 0 THEN Trim(SubSeq(a, 1, Len(a) - 1))
    ELSE a

RECURSIVE BFromInt(_)
\* the number n >= 0
BFromInt(n) == IF n = 0 THEN <<>> ELSE <<n % Base>> \o BFromInt(n \div Base)

RECURSIVE BToInt(_)
\* the value of a number below 2^31
BToInt(a) == IF a = <<>> THEN 0 ELSE a[1] + Base * BToInt(SubSeq(a, 2, Len(a)))

Limb(a, i) == IF i <= Len(a) THEN a[i] ELSE 0

RECURSIVE CmpFrom(_, _, _)
CmpFrom(a, b, i) ==
    IF i = 0 THEN 0
    ELSE IF a[i] > b[i] THEN 1
    ELSE IF a[i] < b[i] THEN -1
    ELSE CmpFrom(a, b, i - 1)

\* -1, 0 or 1 as a < b, a = b or a > b
BCmp(a, b) ==
    IF Len(a) > Len(b) THEN 1
    ELSE IF Len(a) < Len(b) THEN -1
    ELSE CmpFrom(a, b, Len(a))

RECURSIVE AddFrom(_, _, _, _)
AddFrom(a, b, i, c) ==
    IF i > Len(a) /\ i > Len(b) THEN (IF c = 0 THEN <<>> ELSE <<c>>)
    ELSE LET s == Limb(a, i) + Limb(b, i) + c
         IN  <<s % Base>> \o AddFrom(a, b, i + 1, s \div Base)

BAdd(a, b) == AddFrom(a, b, 1, 0)

RECURSIVE SubFrom(_, _, _, _)
SubFrom(a, b, i, c) ==
    IF i > Len(a) THEN <<>>
    ELSE LET s == a[i] - Limb(b, i) - c
         IN  <<(s + Base) % Base>> \o SubFrom(a, b, i + 1, IF s < 0 THEN 1 ELSE 0)

\* a - b for a >= b
BSub(a, b) == Trim(SubFrom(a, b, 1, 0))

RECURSIVE MulSmallFrom(_, _, _, _)
MulSmallFrom(a, k, i, c) ==
    IF i > Len(a) THEN (IF c = 0 THEN <<>> ELSE <<c>>)
    ELSE LET s == a[i] * k + c
         IN  <<s % Base>> \o MulSmallFrom(a, k, i + 1, s \div Base)

\* a * k for 0 <= k <= Base
BMulSmall(a, k) == IF k = 0 THEN <<>> ELSE MulSmallFrom(a, k, 1, 0)

\* a * Base^n
ShiftLimbs(a, n) == IF a = <<>> \/ n = 0 THEN a ELSE [i \in 1 .. n |-> 0] \o a

RECURSIVE MulFrom(_, _, _)
MulFrom(a, b, i) ==
    IF i > Len(b) THEN <<>>
    ELSE BAdd(ShiftLimbs(BMulSmall(a, b[i]), i - 1), MulFrom(a, b, i + 1))

BMul(a, b) == MulFrom(a, b, 1)

RECURSIVE DivSmallFrom(_, _, _, _, _)
\* the division by k of the limbs i, i - 1, ..., 1 of a, after the quotient
\* limbs q and the remainder r of the limbs above them
DivSmallFrom(a, k, i, q, r) ==
    IF i = 0 THEN [q |-> Trim(q), r |-> r]
    ELSE DivSmallFrom(a, k, i - 1, <<(r * Base + a[i]) \div k>> \o q, (r * Base + a[i]) % k)

\* quotient and remainder of a by k, 0 < k <= Base
BDivSmall(a, k) == DivSmallFrom(a, k, Len(a), <<>>, 0)

RECURSIVE BitsOf(_)
BitsOf(n) == IF n = 0 THEN 0 ELSE 1 + BitsOf(n \div 2)

\* the number of bits of a
BitLen(a) == IF a = <<>> THEN 0 ELSE LimbBits * (Len(a) - 1) + BitsOf(a[Len(a)])

\* a is odd
Odd(a) == a # <<>> /\ a[1] % 2 = 1

\* a * 2^n
BShl(a, n) == ShiftLimbs(BMulSmall(a, 2 ^ (n % LimbBits)), n \div LimbBits)

\* what a shift to the right leaves of a, from the division d by 2 * h of
\* the limbs of a above the first w: the quotient, and of the bits dropped
\* half, the highest of them, and sticky, whether any of the others is 1
ShrParts(a, w, h, d) ==
    [q      |-> d.q,
     half   |-> d.r >= h,
     sticky |-> d.r % h # 0 \/ \E i \in 1 .. Min(w, Len(a)) : a[i] # 0]

\* a shifted to the right by w limbs and the bits of 2 * h
ShrBy(a, w, h) == ShrParts(a, w, h, BDivSmall(SubSeq(a, Min(w, Len(a)) + 1, Len(a)), 2 * h))

\* a \div 2^n, with the half and the sticky bit of what is dropped
BShr(a, n) ==
    IF n = 0 THEN [q |-> a, half |-> FALSE, sticky |-> FALSE]
    ELSE ShrBy(a, (n - 1) \div LimbBits, 2 ^ ((n - 1) % LimbBits))

\* the nearest number, ties to even, to a number shifted to the right
Nearest(t) == IF t.half /\ (t.sticky \/ Odd(t.q)) THEN BAdd(t.q, <<1>>) ELSE t.q

RECURSIVE DigitFrom(_, _, _)
\* the largest d with d * b <= r, at or below the estimate d
DigitFrom(r, b, d) ==
    IF BCmp(BMulSmall(b, d), r) <= 0 THEN d ELSE DigitFrom(r, b, d - 1)

\* an estimate, never too small, of r \div b from the leading limbs, for
\* b <= r < b * Base and a b whose last limb is Base / 2 or more
DigitEstimate(r, b) ==
    Min((IF Len(r) > Len(b) THEN r[Len(b) + 1] * Base + r[Len(b)] ELSE r[Len(b)])
            \div b[Len(b)],
        Base - 1)

RECURSIVE DivModFrom(_, _, _, _, _)
\* long division by b of the limbs i, i - 1, ..., 1 of a, after the
\* quotient limbs q and the remainder r of the limbs above them

\* the step of the long division that found the quotient limb d of cur
DivModDigit(a, b, i, q, cur, d) ==
    DivModFrom(a, b, i - 1, <<d>> \o q, BSub(cur, BMulSmall(b, d)))

\* the step of the long division on cur, the remainder so far with the next
\* limb of a behind it
DivModStep(a, b, i, q, cur) ==
    DivModDigit(a, b, i, q, cur,
                IF BCmp(cur, b) < 0 THEN 0 ELSE DigitFrom(cur, b, DigitEstimate(cur, b)))

DivModFrom(a, b, i, q, r) ==
    IF i = 0 THEN [q |-> Trim(q), exact |-> r = <<>>]
    ELSE DivModStep(a, b, i, q, Trim(<<a[i]>> \o r))

\* the shift to the left that fills the last limb of b
Normalizing(b) == (LimbBits - (BitLen(b) % LimbBits)) % LimbBits

\* the quotient of a by b, whose last limb is Base / 2 or more
DivModTop(a, b) == DivModFrom(a, b, Len(a), <<>>, <<>>)

\* the quotient of a by b > 0 and whether the division is exact, by long
\* division, after both are shifted to fill the last limb of b
BDivMod(a, b) == DivModTop(BShl(a, Normalizing(b)), BShl(b, Normalizing(b)))

RECURSIVE BPow10(_)
\* 10^n
BPow10(n) == IF n = 0 THEN <<1>> ELSE BMulSmall(BPow10(n - 1), 10)

RECURSIVE FromGroups(_, _)
\* the number written in decimal as the groups g of four digits, first
\* group first, after the number acc
FromGroups(g, acc) ==
    IF g = <<>> THEN acc
    ELSE FromGroups(Tail(g), BAdd(BMulSmall(acc, 10000), BFromInt(g[1])))

(***************************************************************************)
(* IEEE-754 binary64 numbers.  A finite number is (-1)^neg * m * 2^e with  *)
(* m = 0 (and e = 0) or 2^52 <= m < 2^53; kind tells a finite number from  *)
(* inf and nan; np tells numpy.float64 from Python's float, which differ   *)
(* in what a division by zero does.  A ZeroDivisionError raised inside an  *)
(* expression is the value Raised, which every operation hands on.         *)
(* Exponents are not limited: no value of the program comes near the       *)
(* largest or the smallest double.                                         *)
(***************************************************************************)
\* bits of the significand of a double
Precision == 53

Fin(np, neg, m, e) == [kind |-> "finite", neg |-> neg, m |-> m, e |-> e, np |-> np]

Inf(np, neg) == [kind |-> "inf", neg |-> neg, m |-> <<>>, e |-> 0, np |-> np]

NaN(np) == [kind |-> "nan", neg |-> FALSE, m |-> <<>>, e |-> 0, np |-> np]

Raised == [kind |-> "ZeroDivisionError", neg |-> FALSE, m |-> <<>>, e |-> 0, np |-> FALSE]

IsRaised(x) == x.kind = "ZeroDivisionError"

IsZero(x) == x.kind = "finite" /\ x.m = <<>>

\* the double of the Precision bits r, or of 2^Precision, the bits that
\* rounding up 2^Precision - 1 gives
RoundedUp(np, neg, r, e) ==
    IF BitLen(r) > Precision THEN Fin(np, neg, BShr(r, 1).q, e + 1) ELSE Fin(np, neg, r, e)

\* the double of the bits t kept of a longer number, rounded to the nearest,
\* ties to even; sticky tells that the number had a part below its bits
RoundKept(np, neg, t, e, sticky) ==
    IF t.half /\ (t.sticky \/ sticky \/ Odd(t.q))
    THEN RoundedUp(np, neg, BAdd(t.q, <<1>>), e)
    ELSE Fin(np, neg, t.q, e)

\* the double nearest to (-1)^neg * (m + s) * 2^e, ties to even, where s is
\* 0 or, when sticky, some value strictly between 0 and 1 (sticky only with
\* m of more than Precision bits)
DRound(np, neg, m, e, sticky) ==
    IF m = <<>> THEN Fin(np, neg, <<>>, 0)
    ELSE IF BitLen(m) <= Precision
    THEN Fin(np, neg, BShl(m, Precision - BitLen(m)), e - (Precision - BitLen(m)))
    ELSE RoundKept(np, neg, BShr(m, BitLen(m) - Precision), e + (BitLen(m) - Precision),
                   sticky)

\* the double nearest to (-1)^neg * n / d * 2^e for the quotient qr of n by d
DQuotient(np, neg, qr, e) == DRound(np, neg, qr.q, e, ~qr.exact)

\* the bits by which n is shifted to the left for its quotient by d to have
\* more bits than a double holds
Lift(n, d) ==
    IF BitLen(d) + Precision + 3 > BitLen(n) THEN BitLen(d) + Precision + 3 - BitLen(n) ELSE 0

\* the double nearest to (-1)^neg * n / d for numbers n and d > 0
DRatio(np, neg, n, d) ==
    IF n = <<>> THEN Fin(np, neg, <<>>, 0)
    ELSE DQuotient(np, neg, BDivMod(BShl(n, Lift(n, d)), d), 0 - Lift(n, d))

\* Python's float of the integer n
DInt(n) == DRound(FALSE, n < 0, BFromInt(Abs(n)), 0, FALSE)

\* Python's float of the decimal literal n / 10^digits
DDec(n, digits) == DRatio(FALSE, n < 0, BFromInt(Abs(n)), BPow10(digits))

\* numpy.float64 of a float
AsNumpy(x) == IF IsRaised(x) THEN x ELSE [x EXCEPT !.np = TRUE]

DNeg(x) == IF x.kind \in {"nan", "ZeroDivisionError"} THEN x ELSE [x EXCEPT !.neg = ~x.neg]

\* -1, 0 or 1 as |x| < |y|, |x| = |y| or |x| > |y|, for finite x and y
MagCmp(x, y) ==
    IF x.m = <<>> THEN (IF y.m = <<>> THEN 0 ELSE -1)
    ELSE IF y.m = <<>> THEN 1
    ELSE IF x.e > y.e THEN 1
    ELSE IF x.e < y.e THEN -1
    ELSE BCmp(x.m, y.m)

\* -1, 0 or 1 as x is below 0, 0 or above 0
Sign(x) == IF IsZero(x) THEN 0 ELSE IF x.neg THEN -1 ELSE 1

\* -1, 0 or 1 as x < y, x = y or x > y, for x and y that are not nan
DCmp(x, y) ==
    IF Sign(x) # Sign(y) THEN (IF Sign(x) > Sign(y) THEN 1 ELSE -1)
    ELSE IF Sign(x) = 0 THEN 0
    ELSE IF x.kind = "inf" THEN (IF y.kind = "inf" THEN 0 ELSE Sign(x))
    ELSE IF y.kind = "inf" THEN 0 - Sign(x)
    ELSE Sign(x) * MagCmp(x, y)

\* x > y, x >= y and x == y as Python evaluates them: False for nan
DGt(x, y) == x.kind # "nan" /\ y.kind # "nan" /\ DCmp(x, y) = 1

DGe(x, y) == x.kind # "nan" /\ y.kind # "nan" /\ DCmp(x, y) >= 0

DEq(x, y) == x.kind # "nan" /\ y.kind # "nan" /\ DCmp(x, y) = 0

\* the double nearest to ((-1)^xneg * a + (-1)^yneg * b) * 2^e for numbers
\* a and b that compare as c tells
SumSigned(np, xneg, a, yneg, b, e, c) ==
    DRound(np,
           IF xneg = yneg \/ c > 0 THEN xneg ELSE c < 0 /\ yneg,
           IF xneg = yneg THEN BAdd(a, b) ELSE IF c >= 0 THEN BSub(a, b) ELSE BSub(b, a),
           e, FALSE)

SumAligned(np, xneg, a, yneg, b, e) == SumSigned(np, xneg, a, yneg, b, e, BCmp(a, b))

\* x + y
DAdd(x, y) ==
    IF IsRaised(x) THEN x
    ELSE IF IsRaised(y) THEN y
    ELSE IF x.kind = "nan" \/ y.kind = "nan" THEN NaN(x.np \/ y.np)
    ELSE IF x.kind = "inf"
         THEN (IF y.kind = "inf" /\ y.neg # x.neg THEN NaN(x.np \/ y.np)
               ELSE Inf(x.np \/ y.np, x.neg))
    ELSE IF y.kind = "inf" THEN Inf(x.np \/ y.np, y.neg)
    ELSE IF x.m = <<>> /\ y.m = <<>> THEN Fin(x.np \/ y.np, x.neg /\ y.neg, <<>>, 0)
    ELSE IF x.m = <<>> THEN Fin(x.np \/ y.np, y.neg, y.m, y.e)
    ELSE IF y.m = <<>> THEN Fin(x.np \/ y.np, x.neg, x.m, x.e)
    ELSE SumAligned(x.np \/ y.np,
                    x.neg, BShl(x.m, x.e - Min(x.e, y.e)),
                    y.neg, BShl(y.m, y.e - Min(x.e, y.e)),
                    Min(x.e, y.e))

\* x - y
DSub(x, y) == DAdd(x, DNeg(y))

\* x * y
DMul(x, y) ==
    IF IsRaised(x) THEN x
    ELSE IF IsRaised(y) THEN y
    ELSE IF x.kind = "nan" \/ y.kind = "nan" THEN NaN(x.np \/ y.np)
    ELSE IF x.kind = "inf" \/ y.kind = "inf"
         THEN (IF IsZero(x) \/ IsZero(y) THEN NaN(x.np \/ y.np)
               ELSE Inf(x.np \/ y.np, x.neg # y.neg))
    ELSE IF x.m = <<>> \/ y.m = <<>> THEN Fin(x.np \/ y.np, x.neg # y.neg, <<>>, 0)
    ELSE DRound(x.np \/ y.np, x.neg # y.neg, BMul(x.m, y.m), x.e + y.e, FALSE)

\* x / y.  Python's float raises ZeroDivisionError when y is 0.0 or -0.0,
\* whatever x is, inf and nan included; numpy gives nan for 0 / 0 and for a
\* nan dividend, and inf for the other quotients by zero (with a warning)
DDiv(x, y) ==
    IF IsRaised(x) THEN x
    ELSE IF IsRaised(y) THEN y
    ELSE IF IsZero(y) /\ ~(x.np \/ y.np) THEN Raised
    ELSE IF x.kind = "nan" \/ y.kind = "nan" THEN NaN(x.np \/ y.np)
    ELSE IF x.kind = "inf"
         THEN (IF y.kind = "inf" THEN NaN(x.np \/ y.np) ELSE Inf(x.np \/ y.np, x.neg # y.neg))
    ELSE IF y.kind = "inf" THEN Fin(x.np \/ y.np, x.neg # y.neg, <<>>, 0)
    ELSE IF y.m = <<>>
         THEN (IF x.m = <<>> THEN NaN(TRUE) ELSE Inf(TRUE, x.neg # y.neg))
    ELSE IF x.m = <<>> THEN Fin(x.np \/ y.np, x.neg # y.neg, <<>>, 0)
    ELSE DQuotient(x.np \/ y.np, x.neg # y.neg,
                   BDivMod(BShl(x.m, Precision + 3), y.m), x.e - y.e - (Precision + 3))

\* |x| * 10^digits for finite x that is not 0, as a number shifted to the
\* right
Decimals(x, digits) ==
    IF x.e >= 0
    THEN [q |-> BShl(BMul(x.m, BPow10(digits)), x.e), half |-> FALSE, sticky |-> FALSE]
    ELSE BShr(BMul(x.m, BPow10(digits)), 0 - x.e)

\* the integer nearest to |x| * 10^digits, ties to even, for finite x: the
\* digits that '%.<digits>f' prints
Scaled(x, digits) == IF x.m = <<>> THEN <<>> ELSE Nearest(Decimals(x, digits))

\* numpy.rint(x): the nearest integer, ties to even
DRint(x) ==
    IF x.kind # "finite" \/ x.m = <<>> \/ x.e >= 0 THEN x
    ELSE DRound(x.np, x.neg, Scaled(x, 0), 0, FALSE)

\* the integer part of |x| * 10^digits, for finite x
ScaledDown(x, digits) == IF x.m = <<>> THEN <<>> ELSE Decimals(x, digits).q

\* the float of n paise, written as a decimal literal with two decimals
Money(n) == DDec(n, 2)

\* float(x) of Python, on a numpy.float64 or a float
PyFloat(x) == IF IsRaised(x) THEN x ELSE [x EXCEPT !.np = FALSE]

\* the marker of "no value yet"
None == [kind |-> "none"]

\* the three labels of a forecast
Labels == {"RNN", "LSTM", "CNN"}

\* the labels in the order in which the forecast dictionary is built, which
\* is the order of its keys and values
LabelOrder == <<"RNN", "LSTM", "CNN">>
(***************************************************************************)
(* get_recommendation (predictor.py)                                       *)
(***************************************************************************)
\* the literals the ladder compares with: 2, 0.5, -0.5 and -2
UpperStrong == DInt(2)
UpperModerate == DDec(5, 1)
LowerModerate == DDec(-5, 1)
LowerStrong == DInt(-2)

\* the literal 100 of change_pct
Hundred == DInt(100)

\* the mutant of Exceeds: an inclusive comparison
ExceedsOrEquals(c, t) == DGe(c, t)

\* the mutant of Exceeds: the sign of a negative threshold is lost
ExceedsMagnitude(c, t) == DGt(c, [t EXCEPT !.neg = FALSE])

\* the mutant of Exceeds: the comparison is turned round
ExceedsReversed(c, t) == DGt(t, c)

\* change_pct > t, the comparison of every rung of the ladder
Exceeds(c, t) == DGt(c, t)

\* the keys of the mapping p, in their order
Keys(p) == SelectSeq(LabelOrder, LAMBDA k : k \in DOMAIN p)

RECURSIVE SumOver(_, _)
\* sum(predictions.values()): 0 + v1 + v2 + ..., the values added one after
\* the other in the order of the keys
SumOver(f, keys) ==
    IF keys = <<>> THEN DInt(0)
    ELSE DAdd(SumOver(f, SubSeq(keys, 1, Len(keys) - 1)), f[keys[Len(keys)]])

\* the mutant of avg_prediction: the first forecast in place of the mean
avg_prediction_first(p) == p[Keys(p)[1]]

\* avg_prediction = sum(predictions.values()) / len(predictions)
avg_prediction(p) == DDiv(SumOver(p, Keys(p)), DInt(Cardinality(DOMAIN p)))

\* change_pct = ((avg_prediction - current_price) / current_price) * 100.
\* With current_price = 0 the division raises ZeroDivisionError on Python
\* floats; on the numpy floats of a forecast it raises nothing and yields nan
\* or inf, and every comparison of the ladder with nan is false.
change_pct(p, cp) == DMul(DDiv(DSub(avg_prediction(p), cp), cp), Hundred)

\* the sign characters a conversion of c writes
SignsOf(c, plus) ==
    IF c.neg /\ c.kind # "nan" THEN <<"-">> ELSE IF plus THEN <<"+">> ELSE <<>>

\* the word that stands in place of the digits of an inf or a nan
SpecialOf(c) == IF c.kind = "finite" THEN "" ELSE c.kind

\* the mutant of Format2f: the value is cut after two decimals, not rounded
Format2fTruncated(c, plus) ==
    [signs      |-> SignsOf(c, plus),
     hundredths |-> IF c.kind = "finite" THEN BToInt(ScaledDown(c, 2)) ELSE 0,
     special    |-> SpecialOf(c)]

\* f'{c:.2f}' (plus = FALSE) and f'{c:+.2f}' (plus = TRUE): the sign
\* characters the conversion writes and the digits as a count of hundredths,
\* the exact value of the double rounded to two decimals, ties to even.  An
\* inf or a nan is written as the word "inf" or "nan" in place of digits.
Format2f(c, plus) ==
    [signs      |-> SignsOf(c, plus),
     hundredths |-> IF c.kind = "finite" THEN BToInt(Scaled(c, 2)) ELSE 0,
     special    |-> SpecialOf(c)]

\* a reason string: text, " (", lead, the formatted number, "%)"
Reason(text, lead, f) ==
    [text |-> text, signs |-> lead \o f.signs, hundredths |-> f.hundredths,
     special |-> f.special]

\* the result of a call that raised the exception e instead of returning
Raises(e) == [raised |-> e]

\* the call returned a value
Returned(r) == "raised" \notin DOMAIN r

\* the mutant of the ladder: the stable rung writes a literal '+' in front
\* of the signed conversion
ladder_doubled_sign(c) ==
    IF Exceeds(c, UpperStrong) THEN
        [action |-> "BUY", confidence |-> "High",
         reason |-> Reason("Strong upward trend predicted", <<"+">>, Format2f(c, FALSE)),
         color |-> "#28a745"]
    ELSE IF Exceeds(c, UpperModerate) THEN
        [action |-> "HOLD", confidence |-> "Medium",
         reason |-> Reason("Moderate upward trend predicted", <<"+">>, Format2f(c, FALSE)),
         color |-> "#ffc107"]
    ELSE IF Exceeds(c, LowerModerate) THEN
        [action |-> "HOLD", confidence |-> "Medium",
         reason |-> Reason("Stable trend predicted", <<"+">>, Format2f(c, TRUE)),
         color |-> "#6c757d"]
    ELSE IF Exceeds(c, LowerStrong) THEN
        [action |-> "CAUTION", confidence |-> "Medium",
         reason |-> Reason("Moderate downward trend predicted", <<>>, Format2f(c, FALSE)),
         color |-> "#fd7e14"]
    ELSE
        [action |-> "SELL", confidence |-> "High",
         reason |-> Reason("Strong downward trend predicted", <<>>, Format2f(c, FALSE)),
         color |-> "#dc3545"]

\* the if / elif chain of get_recommendation on the change c
ladder(c) ==
    IF Exceeds(c, UpperStrong) THEN
        [action |-> "BUY", confidence |-> "High",
         reason |-> Reason("Strong upward trend predicted", <<"+">>, Format2f(c, FALSE)),
         color |-> "#28a745"]
    ELSE IF Exceeds(c, UpperModerate) THEN
        [action |-> "HOLD", confidence |-> "Medium",
         reason |-> Reason("Moderate upward trend predicted", <<"+">>, Format2f(c, FALSE)),
         color |-> "#ffc107"]
    ELSE IF Exceeds(c, LowerModerate) THEN
        [action |-> "HOLD", confidence |-> "Medium",
         reason |-> Reason("Stable trend predicted", <<>>, Format2f(c, TRUE)),
         color |-> "#6c757d"]
    ELSE IF Exceeds(c, LowerStrong) THEN
        [action |-> "CAUTION", confidence |-> "Medium",
         reason |-> Reason("Moderate downward trend predicted", <<>>, Format2f(c, FALSE)),
         color |-> "#fd7e14"]
    ELSE
        [action |-> "SELL", confidence |-> "High",
         reason |-> Reason("Strong downward trend predicted", <<>>, Format2f(c, FALSE)),
         color |-> "#dc3545"]

\* what get_recommendation does once change_pct is c: the ZeroDivisionError
\* of the division leaves the function, any other value goes down the ladder
recommendation_for(c) == IF IsRaised(c) THEN Raises(c.kind) ELSE ladder(c)

\* NIFTYWebPredictor.get_recommendation(predictions, current_price)
get_recommendation(p, cp) == recommendation_for(change_pct(p, cp))

(***************************************************************************)
(* get_recommendation (web_generator.py)                                   *)
(***************************************************************************)
\* the mutant of web_exceeds: an inclusive comparison
web_exceeds_or_equals(c, t) == DGe(c, t)

\* change_pct > t in WebDashboardGenerator.get_recommendation
web_exceeds(c, t) == DGt(c, t)

\* avg_prediction and change_pct of WebDashboardGenerator.get_recommendation
web_change_pct(p, cp) ==
    DMul(DDiv(DSub(DDiv(SumOver(p, Keys(p)), DInt(Cardinality(DOMAIN p))), cp), cp), Hundred)

\* the if / elif chain of WebDashboardGenerator.get_recommendation
web_ladder(c) ==
    IF web_exceeds(c, UpperStrong) THEN
        [action |-> "BUY", confidence |-> "High",
         reason |-> Reason("Strong upward trend predicted", <<"+">>, Format2f(c, FALSE)),
         color |-> "#28a745"]
    ELSE IF web_exceeds(c, UpperModerate) THEN
        [action |-> "HOLD", confidence |-> "Medium",
         reason |-> Reason("Moderate upward trend predicted", <<"+">>, Format2f(c, FALSE)),
         color |-> "#ffc107"]
    ELSE IF web_exceeds(c, LowerModerate) THEN
        [action |-> "HOLD", confidence |-> "Medium",
         reason |-> Reason("Stable trend predicted", <<>>, Format2f(c, TRUE)),
         color |-> "#6c757d"]
    ELSE IF web_exceeds(c, LowerStrong) THEN
        [action |-> "CAUTION", confidence |-> "Medium",
         reason |-> Reason("Moderate downward trend predicted", <<>>, Format2f(c, FALSE)),
         color |-> "#fd7e14"]
    ELSE
        [action |-> "SELL", confidence |-> "High",
         reason |-> Reason("Strong downward trend predicted", <<>>, Format2f(c, FALSE)),
         color |-> "#dc3545"]

\* what WebDashboardGenerator.get_recommendation does once change_pct is c
web_recommendation_for(c) == IF IsRaised(c) THEN Raises(c.kind) ELSE web_ladder(c)

\* WebDashboardGenerator.get_recommendation(predictions, current_price)
web_get_recommendation(p, cp) == web_recommendation_for(web_change_pct(p, cp))

(***************************************************************************)
(* Files and the state of a run.                                           *)
(***************************************************************************)
\* a file that does not exist
Absent == [kind |-> "absent"]

\* no run of run_daily_prediction is in progress
NoRun ==
    /\ provider = None
    /\ fetch_count = 0
    /\ stages = <<>>
    /\ charts = None
    /\ created_forecast = None
    /\ now = None
    /\ market_status = None
    /\ html_content = None
    /\ docs_dir = FALSE
    /\ index_html = Absent
    /\ data_json = Absent
    /\ prediction_history = Absent
    /\ result = ""
    /\ history_before = Absent
    /\ job = ""
    /\ job_script = <<>>


(***************************************************************************)
(* Calls of get_recommendation on chosen arguments.                        *)
(***************************************************************************)
\* the price of the generic calls: 200 paise, the float 2.00, and 200
\* rupees, the float 200.0.  One unit of the forecast sum moves the exact
\* change by 1/6 of a percent, so that sums hit the four thresholds; the
\* computed change is exactly on the threshold for the rupee values and
\* beside it for some of the paise values.
BasePrice == 200

\* forecast values within MaxDev paise of 2.00
NearValues == {Money(n) : n \in (BasePrice - MaxDev) .. (BasePrice + MaxDev)}

\* forecast values within MaxDev rupees of 200.0
WholeValues == {DInt(n) : n \in (BasePrice - MaxDev) .. (BasePrice + MaxDev)}

\* the forecasts of that many rupees in which LSTM and CNN agree
WholeForecasts ==
    {[l \in Labels |-> IF l = "RNN" THEN a ELSE b] : a \in WholeValues, b \in WholeValues}

\* a forecast whose three values are all v
Flat(v) == [l \in Labels |-> v]

\* calls whose computed change is the float 2.0001 and the float -2.0001:
\* a price of 83.0 against a forecast of 84.660083 and of 81.339917
JustAboveUpper == [cp |-> DInt(83), p |-> Flat(DDec(84660083, 6))]
JustBelowLower == [cp |-> DInt(83), p |-> Flat(DDec(81339917, 6))]

\* the sample dashboard of chart_script_1.py: 21450.75 against
\* RNN 21520, LSTM 21580, CNN 21490
ChartScenario ==
    [cp |-> Money(2145075),
     p  |-> [l \in Labels |-> CASE l = "RNN"  -> DInt(21520)
                                [] l = "LSTM" -> DInt(21580)
                                [] l = "CNN"  -> DInt(21490)]]

\* calls with a price of 0: on Python floats, and on the numpy floats that
\* make_predictions returns, with a forecast of 0 and with one above 0
ZeroPrice == [cp |-> DInt(0), p |-> Flat(Money(BasePrice))]
ZeroPriceNumpy == [cp |-> DInt(0), p |-> Flat(AsNumpy(DInt(0)))]
ZeroPriceNumpyAbove == [cp |-> DInt(0), p |-> Flat(AsNumpy(Money(BasePrice)))]

\* a call on Python floats with a price of 0 and a forecast of inf
ZeroPriceInfinite == [cp |-> DInt(0), p |-> Flat(Inf(FALSE, FALSE))]

RecInputs ==
    {[cp |-> Money(BasePrice), p |-> p] : p \in [Labels -> NearValues]}
        \cup {[cp |-> DInt(BasePrice), p |-> p] : p \in WholeForecasts}
        \cup {JustAboveUpper, JustBelowLower, ChartScenario}
        \cup {ZeroPrice, ZeroPriceNumpy, ZeroPriceNumpyAbove, ZeroPriceInfinite}

InitRec ==
    /\ pc = "call"
    /\ callee = "get_recommendation"
    /\ \E i \in RecInputs : predictions = i.p /\ current_price = i.cp
    /\ changePct = None
    /\ recommendation = None
    /\ web_recommendation = None
    /\ data = <<>>
    /\ volume = None
    /\ trend = None
    /\ error = ""
    /\ noise = None
    /\ rng = None
    /\ calls = 0
    /\ prev_predictions = None
    /\ NoRun

\* what a call leaves in the variable that takes its result
ResultOf(r) == IF Returned(r) THEN r ELSE None

\* both implementations are called on the same arguments; a call that raises
\* assigns no result
GetRecommendation ==
    /\ pc = "call"
    /\ changePct' = change_pct(predictions, current_price)
    /\ recommendation' = IF IsRaised(changePct') THEN None ELSE recommendation_for(changePct')
    /\ web_recommendation' = ResultOf(web_get_recommendation(predictions, current_price))
    /\ error' = IF IsRaised(changePct') THEN changePct'.kind ELSE ""
    /\ pc' = "returned"
    /\ UNCHANGED <<predictions, current_price, data, volume, trend, callee>>
    /\ UNCHANGED <<repeatVars, runVars>>
    /\ UNCHANGED jobVars

NextRec == GetRecommendation

SpecRec == InitRec /\ [][NextRec]_vars

(***************************************************************************)
(* make_predictions (predictor.py) and make_sample_predictions (script.py) *)
(***************************************************************************)
\* the window of data['Close'].tail(10)
LookbackPredictor == 10

\* the offset of data['Close'].iloc[-5]
LookbackScript == 5

\* the mutant of recent_prices: the whole series instead of its tail
recent_prices_whole(d) == d

\* recent_prices = data['Close'].tail(10).values: the last 10 closes, or
\* all of them when the series has fewer
recent_prices(d) ==
    SubSeq(d, IF Len(d) > LookbackPredictor THEN Len(d) - LookbackPredictor + 1 ELSE 1, Len(d))

\* (current_price - old) / old
relative_change(cp, old) == DDiv(DSub(cp, old), old)

\* the mutant of predictor_trend: the change is not divided by the old close
predictor_trend_absolute(d) == DSub(PyFloat(d[Len(d)]), recent_prices(d)[1])

\* trend = (current_price - recent_prices[0]) / recent_prices[0], on a
\* series with at least one row; current_price is float(Close.iloc[-1])
predictor_trend(d) == relative_change(PyFloat(d[Len(d)]), recent_prices(d)[1])

\* recent_change = (current_price - Close.iloc[-5]) / Close.iloc[-5], on a
\* series with at least 5 rows
script_recent_change(d) == relative_change(d[Len(d)], d[Len(d) - LookbackScript + 1])

\* the mutant of Weight: the weights of RNN and LSTM are exchanged
WeightExchanged == ("RNN" :> DDec(12, 1)) @@ ("LSTM" :> DDec(8, 1)) @@ ("CNN" :> DDec(6, 1))

\* the weights of the three labels: 0.8, 1.2 and 0.6
Weight == ("RNN" :> DDec(8, 1)) @@ ("LSTM" :> DDec(12, 1)) @@ ("CNN" :> DDec(6, 1))

\* the standard deviations of the three noise draws: 0.005, 0.003, 0.007
Sigma == ("RNN" :> DDec(5, 3)) @@ ("LSTM" :> DDec(3, 3)) @@ ("CNN" :> DDec(7, 3))

\* the place of a label's draw among the three draws of a forecast
DrawOrder == ("RNN" :> 1) @@ ("LSTM" :> 2) @@ ("CNN" :> 3)

\* the float written with the decimal digits in the groups g of four, the
\* last `digits` of them after the point
Draw(neg, g, digits) == DRatio(FALSE, neg, FromGroups(g, <<>>), BPow10(digits))

(***************************************************************************)
(* numpy's global generator, the Mersenne twister of np.random.  Its state *)
(* is told by the seed it was last seeded with and the number of normal    *)
(* draws made since.  The draws of a seed are the values the generator     *)
(* returns (legacy polar method), written with the digits of their repr.   *)
(***************************************************************************)
\* the standard normal draws that follow np.random.seed(42):
\* 0.4967141530112327, -0.13826430117118466, 0.6476885381006925,
\* 1.5230298564080254, -0.23415337472333597, -0.23413695694918055,
\* 1.5792128155073915, 0.7674347291529088, -0.4694743859349521
Seed42Stream ==
    <<Draw(FALSE, <<4967, 1415, 3011, 2327>>, 16),
      Draw(TRUE, <<1, 3826, 4301, 1711, 8466>>, 17),
      Draw(FALSE, <<6476, 8853, 8100, 6925>>, 16),
      Draw(FALSE, <<1, 5230, 2985, 6408, 254>>, 16),
      Draw(TRUE, <<2, 3415, 3374, 7233, 3597>>, 17),
      Draw(TRUE, <<2, 3413, 6956, 9491, 8055>>, 17),
      Draw(FALSE, <<1, 5792, 1281, 5507, 3915>>, 16),
      Draw(FALSE, <<7674, 3472, 9152, 9088>>, 16),
      Draw(TRUE, <<4694, 7438, 5934, 9521>>, 16)>>

\* the standard normal draws that follow np.random.seed(0):
\* 1.764052345967664, 0.4001572083672233, 0.9787379841057392,
\* 2.240893199201458, 1.8675579901499675, -0.977277879876411,
\* 0.9500884175255894, -0.1513572082976979, -0.10321885179355784
Seed0Stream ==
    <<Draw(FALSE, <<1764, 523, 4596, 7664>>, 15),
      Draw(FALSE, <<4001, 5720, 8367, 2233>>, 16),
      Draw(FALSE, <<9787, 3798, 4105, 7392>>, 16),
      Draw(FALSE, <<2240, 8931, 9920, 1458>>, 15),
      Draw(FALSE, <<1, 8675, 5799, 149, 9675>>, 16),
      Draw(TRUE, <<977, 2778, 7987, 6411>>, 15),
      Draw(FALSE, <<9500, 8841, 7525, 5894>>, 16),
      Draw(TRUE, <<1513, 5720, 8297, 6979>>, 16),
      Draw(TRUE, <<1, 321, 8851, 7935, 5784>>, 17)>>

\* the standard normal draws that follow np.random.seed(1):
\* 1.6243453636632417, -0.6117564136500754, -0.5281717522634557,
\* -1.0729686221561705, 0.8654076293246785, -2.3015386968802827,
\* 1.74481176421648, -0.7612069008951028, 0.31903909605709857
Seed1Stream ==
    <<Draw(FALSE, <<1, 6243, 4536, 3663, 2417>>, 16),
      Draw(TRUE, <<6117, 5641, 3650, 754>>, 16),
      Draw(TRUE, <<5281, 7175, 2263, 4557>>, 16),
      Draw(TRUE, <<1, 729, 6862, 2156, 1705>>, 16),
      Draw(FALSE, <<8654, 762, 9324, 6785>>, 16),
      Draw(TRUE, <<2, 3015, 3869, 6880, 2827>>, 16),
      Draw(FALSE, <<174, 4811, 7642, 1648>>, 14),
      Draw(TRUE, <<7612, 690, 895, 1028>>, 16),
      Draw(FALSE, <<3, 1903, 9096, 570, 9857>>, 17)>>

\* the generator after np.random.seed(s) and n draws of np.random.normal
Generator(s, n) == [seed |-> s, drawn |-> n]

\* the seed of make_predictions
FixedSeed == 42

\* the draws of the generator seeded with s
GaussStream(s) ==
    CASE s = FixedSeed -> Seed42Stream
      [] s = 0 -> Seed0Stream
      [] s = 1 -> Seed1Stream

\* A process that never seeds starts with a generator seeded from the
\* entropy of the system, in any of its states.  The model takes the states
\* that follow the seeds 0 and 1.
EntropySeeds == {0, 1}

\* np.random.normal(loc, scale) on the generator g, as the k-th draw from
\* now: loc + scale * gauss
normal(loc, scale, g, k) == DAdd(loc, DMul(scale, GaussStream(g.seed)[g.drawn + k]))

\* the three draws np.random.normal(0, sigma) that follow np.random.seed(42):
\* 0.0024835707650561634, -0.000414792903513554, 0.004533819766704848
Seed42Noise ==
    ("RNN" :> normal(DInt(0), Sigma["RNN"], Generator(FixedSeed, 0), 1))
        @@ ("LSTM" :> normal(DInt(0), Sigma["LSTM"], Generator(FixedSeed, 0), 2))
        @@ ("CNN" :> normal(DInt(0), Sigma["CNN"], Generator(FixedSeed, 0), 3))

\* round(x, 2) of a numpy.float64: numpy.round multiplies by 100, rounds to
\* the nearest integer, ties to even, and divides by 100
np_round(x) == DDiv(DRint(DMul(x, Hundred)), Hundred)

\* current_price * (1 + trend * weight + noise)
Product(cp, t, w, n) == DMul(cp, DAdd(DAdd(DInt(1), DMul(t, w)), n))

\* the return of make_predictions for the price cp, the trend t and the
\* noise n drawn after np.random.seed(42): each forecast is
\* round(current_price * (1 + trend * weight + noise), 2)
rounded_forecast(cp, t, n) ==
    [error |-> "", current_price |-> cp, trend |-> t, noise |-> n,
     predictions |-> [l \in Labels |-> np_round(Product(cp, t, Weight[l], n[l]))],
     rng |-> Generator(FixedSeed, Cardinality(Labels))]

\* NIFTYWebPredictor.make_predictions(data) on the generator g:
\* data['Close'].iloc[-1] raises IndexError on an empty series, before the
\* generator is touched; otherwise the generator is seeded with 42, the
\* three draws are made and the rounded forecast is returned
make_predictions(d, g) ==
    IF Len(d) = 0 THEN
        [error |-> "IndexError", current_price |-> None, trend |-> None,
         noise |-> None, predictions |-> None, rng |-> g]
    ELSE rounded_forecast(PyFloat(d[Len(d)]), predictor_trend(d), Seed42Noise)

\* the return of make_sample_predictions for the price cp, the change t and
\* the noise n drawn from the generator g: each forecast is
\* current_price * (1 + recent_change * weight + noise)
sample_forecast(cp, t, n, g) ==
    [error |-> "", current_price |-> cp, trend |-> t, noise |-> n,
     predictions |-> [l \in Labels |-> Product(cp, t, Weight[l], n[l])],
     rng |-> Generator(g.seed, g.drawn + Cardinality(Labels))]

\* make_sample_predictions(data) of script.py on the generator g:
\* Close.iloc[-1] and Close.iloc[-5] raise IndexError when the series has
\* fewer than 1 and 5 rows; otherwise the next three draws of the generator
\* are made and the forecast is returned as it is computed, not rounded
make_sample_predictions(d, g) ==
    IF Len(d) = 0 THEN
        [error |-> "IndexError", current_price |-> None, trend |-> None,
         noise |-> None, predictions |-> None, rng |-> g]
    ELSE IF Len(d) < LookbackScript THEN
        [error |-> "IndexError", current_price |-> d[Len(d)], trend |-> None,
         noise |-> None, predictions |-> None, rng |-> g]
    ELSE
        sample_forecast(d[Len(d)], script_recent_change(d),
                        [l \in Labels |-> normal(DInt(0), Sigma[l], g, DrawOrder[l])], g)

(***************************************************************************)
(* Calls of the two predictors on chosen price series.                     *)
(***************************************************************************)
\* the lowest close of the series, 1.95 rupees, and the distance between
\* two closes, 5 paise
CloseLow == 195
CloseStep == 5

\* the k-th close: 1.95, 2.00, 2.05, ... as the provider's frame holds them,
\* numpy floats
Close(k) == AsNumpy(Money(CloseLow + CloseStep * (k - 1)))

\* the closes of the series
Closes == {Close(k) : k \in 1 .. MaxClose}

\* the series of n sessions that closed at lo in the first k of them and at
\* hi from then on
Step(n, k, lo, hi) == [i \in 1 .. n |-> IF i <= k THEN lo ELSE hi]

\* the series handed to a predictor: at most m sessions with at most one
\* change of the close, the empty series included
SeriesOver(m, C) == {Step(n, k, lo, hi) : n \in 0 .. m, k \in 0 .. m, lo \in C, hi \in C}

SeriesSet(m) == SeriesOver(m, Closes)

\* the states the generator may be in before a call
Generators == {Generator(s, 0) : s \in EntropySeeds}

InitPredict ==
    /\ pc = "call"
    /\ \/ callee = "make_predictions" /\ data \in SeriesSet(MaxLen)
       \/ callee = "make_sample_predictions" /\ data \in SeriesSet(MaxLenScript)
    /\ volume = None
    /\ rng \in Generators
    /\ predictions = None
    /\ current_price = None
    /\ changePct = None
    /\ trend = None
    /\ error = ""
    /\ recommendation = None
    /\ web_recommendation = None
    /\ noise = None
    /\ calls = 0
    /\ prev_predictions = None
    /\ NoRun

\* the caller receives r, the return or the error of a predictor, and the
\* generator is left as the call left it
Forecast(r) ==
    /\ error' = r.error
    /\ current_price' = r.current_price
    /\ trend' = r.trend
    /\ noise' = r.noise
    /\ predictions' = r.predictions
    /\ rng' = r.rng

MakePredictions ==
    /\ pc = "call"
    /\ callee = "make_predictions"
    /\ Forecast(make_predictions(data, rng))
    /\ calls' = calls + 1
    /\ pc' = "returned"
    /\ UNCHANGED <<data, volume, callee, changePct, recommendation, web_recommendation,
                   prev_predictions>>
    /\ UNCHANGED runVars
    /\ UNCHANGED jobVars

MakeSamplePredictions ==
    /\ pc = "call"
    /\ callee = "make_sample_predictions"
    /\ Forecast(make_sample_predictions(data, rng))
    /\ calls' = calls + 1
    /\ pc' = "returned"
    /\ UNCHANGED <<data, volume, callee, changePct, recommendation, web_recommendation,
                   prev_predictions>>
    /\ UNCHANGED runVars
    /\ UNCHANGED jobVars

\* the caller keeps the forecast and calls the same predictor again on the
\* same series
CallAgain ==
    /\ pc = "returned"
    /\ callee \in {"make_predictions", "make_sample_predictions"}
    /\ error = ""
    /\ calls < MaxCalls
    /\ prev_predictions' = predictions
    /\ pc' = "call"
    /\ UNCHANGED <<callVars, noise, rng, calls, runVars>>
    /\ UNCHANGED jobVars

NextPredict == MakePredictions \/ MakeSamplePredictions \/ CallAgain

SpecPredict == InitPredict /\ [][NextPredict]_vars

(***************************************************************************)
(* run_daily_prediction: the pipeline of predictor.py and of the script.py *)
(* variant, from the provider's answer to the files under docs/.           *)
(***************************************************************************)
\* the frame has no column of that name: data['Volume'] raises KeyError
NoColumn == [kind |-> "no column"]

\* the Volume column of a frame, integers: .iloc[-1] gives 1234 shares
SessionVolume == [kind |-> "int64", last |-> 1234]

\* the provider could not be reached: ticker.history raises
ProviderDown == [ok |-> FALSE, rows |-> <<>>, volume |-> None]

\* the provider answers with a price series: a frame with the columns Open,
\* High, Low, Close and Volume, of which the model keeps Close and Volume
ProviderRows(d) == [ok |-> TRUE, rows |-> d, volume |-> SessionVolume]

\* series whose latest close is 0, after at least one positive close
ZeroEnding(m) == {Append(d, AsNumpy(DInt(0))) : d \in SeriesSet(m - 1) \ {<<>>}}

\* series over the two lowest closes, for the script.py variant
ScriptSeriesSet(m) == SeriesOver(m, {Close(1), Close(2)})

\* the mutant of fetch_nifty_data: the emptiness check is left out
fetch_nifty_data_unchecked(p) ==
    IF ~p.ok THEN [error |-> "ProviderError", data |-> None, volume |-> None]
    ELSE [error |-> "", data |-> p.rows, volume |-> p.volume]

\* NIFTYWebPredictor.fetch_nifty_data(): whatever ticker.history raises is
\* logged and raised again; an empty frame raises ValueError("No data
\* received from Yahoo Finance"); otherwise the frame is returned
fetch_nifty_data(p) ==
    IF ~p.ok THEN [error |-> "ProviderError", data |-> None, volume |-> None]
    ELSE IF Len(p.rows) = 0 THEN [error |-> "ValueError", data |-> None, volume |-> None]
    ELSE [error |-> "", data |-> p.rows, volume |-> p.volume]

\* data_collector.fetch_nifty_data() followed by preprocess_data(data), whose
\* results the script.py variant does not use further: an empty answer is a
\* no-data error
collector_fetch_nifty_data(p) ==
    IF ~p.ok THEN [error |-> "ProviderError", data |-> None, volume |-> None]
    ELSE IF Len(p.rows) = 0 THEN [error |-> "NoDataError", data |-> None, volume |-> None]
    ELSE [error |-> "", data |-> p.rows, volume |-> p.volume]

\* second of the day of 09:15:00 and of 15:30:00
MarketOpenSecond == 9 * 3600 + 15 * 60
MarketCloseSecond == 15 * 3600 + 30 * 60

\* a clock reading is a weekday (Monday 0 .. Sunday 6), the second of the day
\* and the microsecond within it
Reading(w, t, u) == [weekday |-> w, second |-> t, micro |-> u]

\* the clock readings a run may take: a Friday and a Saturday (weekday() 4
\* and 5), the last microsecond before 09:15:00, 09:15:00, 15:30:00 and the
\* first microsecond after it
Clock ==
    {Reading(w, i[1], i[2]) :
        w \in {4, 5},
        i \in {<<MarketOpenSecond - 1, 999999>>, <<MarketOpenSecond, 0>>,
               <<MarketCloseSecond, 0>>, <<MarketCloseSecond, 1>>}}

\* a <= b on two readings of the same day
NotAfter(a, b) == a.second < b.second \/ (a.second = b.second /\ a.micro <= b.micro)

\* now.replace(hour=9, minute=15, second=0, microsecond=0) and the same for
\* 15:30
market_open(n) == Reading(n.weekday, MarketOpenSecond, 0)
market_close(n) == Reading(n.weekday, MarketCloseSecond, 0)

\* the mutant of get_market_status: the microseconds of now are dropped
\* before the comparison
get_market_status_whole_seconds(n) ==
    LET t == Reading(n.weekday, n.second, 0)
    IN  IF NotAfter(market_open(t), t) /\ NotAfter(t, market_close(t)) /\ t.weekday < 5
        THEN [status |-> "OPEN", color |-> "#28a745"]
        ELSE [status |-> "CLOSED", color |-> "#dc3545"]

\* NIFTYWebPredictor.get_market_status() at the clock reading n:
\* market_open <= now <= market_close and now.weekday() < 5
get_market_status(n) ==
    IF NotAfter(market_open(n), n) /\ NotAfter(n, market_close(n)) /\ n.weekday < 5
    THEN [status |-> "OPEN", color |-> "#28a745"]
    ELSE [status |-> "CLOSED", color |-> "#dc3545"]

\* WebDashboardGenerator.get_market_status() at the clock reading n
web_get_market_status(n) ==
    IF NotAfter(market_open(n), n) /\ NotAfter(n, market_close(n)) /\ n.weekday < 5
    THEN [status |-> "OPEN", color |-> "#28a745"]
    ELSE [status |-> "CLOSED", color |-> "#dc3545"]

\* f'{p:,.0f}': the sign the conversion writes and the digits as a count of
\* whole rupees, the exact value of the double rounded to an integer, ties
\* to even
Format0f(p) ==
    [signs   |-> SignsOf(p, FALSE),
     rupees  |-> IF p.kind = "finite" THEN BToInt(Scaled(p, 0)) ELSE 0,
     special |-> SpecialOf(p)]

\* generate_dashboard_html(data, predictions, recommendation, market_status):
\* the fields of the run that the page shows
generate_dashboard_html(d, p, r, m) ==
    [kind           |-> "dashboard",
     run            |-> "this",
     current_price  |-> PyFloat(d[Len(d)]),
     shown          |-> [l \in Labels |-> Format0f(p[l])],
     recommendation |-> r,
     market_status  |-> m]

\* the page generate_error_page writes; msg is the text it embeds
ErrorPage(msg) == [kind |-> "error", run |-> "this", message |-> msg]

\* the mutant of generate_error_page: the page carries the message, as in
\* the script.py variant
generate_error_page_with_message(error_message) == ErrorPage(error_message)

\* NIFTYWebPredictor.generate_error_page(error_message): a fixed page, the
\* message is not put into it; the method makes docs/ and writes the page
generate_error_page(error_message) == ErrorPage("")

\* generate_error_page(error_message) of the script.py variant, called while
\* docs/index.html is file: error_html is built with the message in it, then
\* os.makedirs raises NameError, because this predictor module never imports
\* os; the file is not opened and stays as it was
script_generate_error_page(error_message, file) ==
    [error_html |-> ErrorPage(error_message), error |-> "NameError", index_html |-> file]

\* json_data of save_data_json for the last close cp, the close before it
\* and the Volume column v: volume is float(Volume.iloc[-1]), daily_change
\* is cp - last and daily_change_pct is (cp - last) / last * 100, both made
\* Python floats
json_data(cp, last, v, p, r) ==
    [kind             |-> "json",
     run              |-> "this",
     current_price    |-> PyFloat(cp),
     predictions      |-> p,
     recommendation   |-> r,
     volume           |-> DInt(v.last),
     daily_change     |-> PyFloat(DSub(cp, last)),
     daily_change_pct |-> PyFloat(DMul(relative_change(cp, last), Hundred))]

\* save_data_json(data, predictions, recommendation) on a frame with the
\* closes d and the Volume column v.  Close.iloc[-1] raises IndexError on an
\* empty frame; while json_data is being built, data['Volume'] raises
\* KeyError on a frame without that column and Close.iloc[-2] raises
\* IndexError on a one-row frame, all before docs/ is made and docs/data.json
\* is opened; otherwise the dictionary is written
save_data_json(d, v, p, r) ==
    IF Len(d) = 0 THEN [error |-> "IndexError", file |-> None]
    ELSE IF v = NoColumn THEN [error |-> "KeyError", file |-> None]
    ELSE IF Len(d) < 2 THEN [error |-> "IndexError", file |-> None]
    ELSE [error |-> "", file |-> json_data(d[Len(d)], d[Len(d) - 1], v, p, r)]

\* self.get_recommendation(predictions, historical_data['Close'].iloc[-1])
\* as generate_dashboard calls it on the forecast of make_sample_predictions
dashboard_recommendation(p, cp) == web_get_recommendation(p, cp)

\* dashboard_data of WebDashboardGenerator.generate_dashboard, which is both
\* rendered into the page and dumped to docs/data.json; r is what
\* self.get_recommendation returned for it, m the market status and c the
\* three charts
dashboard_data(k, d, p, r, m, c) ==
    [kind             |-> k,
     run              |-> "this",
     current_price    |-> d[Len(d)],
     predictions      |-> p,
     recommendation   |-> r,
     price_chart      |-> c.price_chart,
     metrics_chart    |-> c.metrics_chart,
     comparison_chart |-> c.comparison_chart,
     market_status    |-> m]

\* history = history[-100:]
HistoryCap == 100

\* the history file holds text that is not JSON
Corrupt == [kind |-> "corrupt"]

\* the history file holds bytes that are not text in the default encoding
Undecodable == [kind |-> "undecodable"]

\* the history file holds valid JSON that is not a list ({}, null, 5, "abc")
NotAList == [kind |-> "value"]

\* log_entry of save_prediction_log(predictions, data) at the time t, on a
\* frame with at least one row and the Volume column v: the price, the
\* forecasts and the volume are made Python floats
log_entry(p, d, v, t) ==
    [timestamp     |-> t,
     current_price |-> PyFloat(d[Len(d)]),
     predictions   |-> [k \in DOMAIN p |-> PyFloat(p[k])],
     volume        |-> DInt(v.last)]

\* the mutant of LastEntries: history[:100], the oldest entries are kept
FirstEntries(h) ==
    IF Len(h) <= HistoryCap THEN h ELSE SubSeq(h, 1, HistoryCap)

\* history[-100:]
LastEntries(h) ==
    IF Len(h) <= HistoryCap THEN h ELSE SubSeq(h, Len(h) - HistoryCap + 1, Len(h))

\* the history file after log_entry e was built, when the file held h and
\* dir tells whether docs/ exists.  json.load raises UnicodeDecodeError on
\* undecodable bytes, which the except clause (FileNotFoundError,
\* json.JSONDecodeError) does not catch; a JSON value that is not a list is
\* loaded and has no append (AttributeError); both leave the file as it
\* was.  A missing file and text that is not JSON give history = [].  Then
\* the entry is appended, the list is cut to its last HistoryCap entries
\* and the file is opened for writing: without docs/, which the method
\* never makes, open raises FileNotFoundError and nothing is written.
history_written(h, e, dir) ==
    IF h.kind = "undecodable" THEN [error |-> "UnicodeDecodeError", file |-> h]
    ELSE IF h.kind = "value" THEN [error |-> "AttributeError", file |-> h]
    ELSE IF ~dir THEN [error |-> "FileNotFoundError", file |-> h]
    ELSE [error |-> "",
          file  |-> [kind    |-> "json",
                     entries |-> LastEntries(Append(IF h.kind = "json" THEN h.entries
                                                    ELSE <<>>, e))]]

\* save_prediction_log(predictions, data) at the time t, on a frame with the
\* closes d and the Volume column v, while the history file holds h.
\* Building log_entry, Close.iloc[-1] raises IndexError on an empty frame
\* and data['Volume'] raises KeyError on a frame without that column,
\* before the file is read.
save_prediction_log(p, d, v, t, h, dir) ==
    IF Len(d) = 0 THEN [error |-> "IndexError", file |-> h]
    ELSE IF v = NoColumn THEN [error |-> "KeyError", file |-> h]
    ELSE history_written(h, log_entry(p, d, v, t), dir)

\* what an earlier run left under docs/
EarlierDashboard == [kind |-> "dashboard", run |-> "earlier"]
EarlierErrorPage == [kind |-> "error", run |-> "earlier"]
EarlierJson == [kind |-> "json", run |-> "earlier"]
EarlierEntry == [timestamp |-> "earlier"]
EarlierHistory == [kind |-> "json", entries |-> <<EarlierEntry>>]

\* the contents of docs/ a run starts from: nothing, the output of a
\* successful earlier run, the error page of a failed earlier run
InitialDocs ==
    {[index_html |-> Absent, data_json |-> Absent],
     [index_html |-> EarlierDashboard, data_json |-> EarlierJson],
     [index_html |-> EarlierErrorPage, data_json |-> EarlierJson]}

\* whether docs/ exists, given the files found in it: a file is in a
\* directory that exists, and without files docs/ may exist or not
DirectoryOf(files) == IF files = {Absent} THEN BOOLEAN ELSE {TRUE}

(***************************************************************************)
(* The 'Generate dashboard' step of deploy_dashboard.yml (script.py).      *)
(***************************************************************************)
\* the characters of the step the shell and Python give a meaning to
Quote == "\""
EscapedQuote == "\\\""
TripleQuote == "'''"
Blank == " "

\* the step as the listing of script.py spells it, inside the triple-quoted
\* Python string that holds the workflow: python -c " ... ", the program
\* with its try / except and the placeholder page between f''' and ''',
\* every double quote of the page written with a backslash
StepListing ==
    <<"python", Blank, "-c", Blank, Quote,
      "try:", Blank, "predictor.run_daily_prediction()", Blank,
      "except:", Blank, "error_html=f", TripleQuote,
      "<meta", Blank, "charset=", EscapedQuote, "UTF-8", EscapedQuote, ">", Blank,
      "<meta", Blank, "name=", EscapedQuote, "viewport", EscapedQuote, Blank,
      "content=", EscapedQuote, "width=device-width,", Blank, "initial-scale=1.0",
      EscapedQuote, ">", Blank,
      "<div", Blank, "class=", EscapedQuote, "loading", EscapedQuote, ">",
      TripleQuote, Blank,
      "open('docs/index.html','w').write(error_html)", Quote>>

\* the value of a Python string literal that is not raw: a backslash before
\* a double quote is dropped
StringLiteral(text) ==
    [i \in DOMAIN text |-> IF text[i] = EscapedQuote THEN Quote ELSE text[i]]

\* create_project_structure(base_path, web_project_structure): the file
\* .github/workflows/deploy_dashboard.yml receives the value of the string
WrittenStep == StringLiteral(StepListing)

\* the shell splits a command into words: a double quote opens or closes a
\* quoted stretch and is removed, a backslash keeps the double quote after
\* it, a blank outside a quoted stretch ends the word
RECURSIVE Words(_, _, _, _)
Words(s, i, quoted, word) ==
    IF i > Len(s) THEN (IF word = <<>> THEN <<>> ELSE <<word>>)
    ELSE IF s[i] = Quote THEN Words(s, i + 1, ~quoted, word)
    ELSE IF s[i] = EscapedQuote THEN Words(s, i + 1, quoted, Append(word, Quote))
    ELSE IF s[i] = Blank /\ ~quoted
         THEN (IF word = <<>> THEN <<>> ELSE <<word>>) \o Words(s, i + 1, FALSE, <<>>)
    ELSE Words(s, i + 1, quoted, Append(word, s[i]))

\* the words of the command of a step
argv(s) == Words(s, 1, FALSE, <<>>)

\* python -c command: the program is the one word after -c; it is compiled
\* before any of it runs, and a triple-quoted string that is not closed is a
\* SyntaxError
Compiles(command) ==
    Cardinality({i \in DOMAIN command : command[i] = TripleQuote}) % 2 = 0

\* the page the step writes when run_daily_prediction raised
FallbackPage == [kind |-> "fallback", run |-> "this"]

InitRun ==
    /\ \/ /\ callee = "run_daily_prediction"
          /\ provider \in {ProviderDown}
                 \cup {ProviderRows(d) : d \in SeriesSet(MaxFeed) \cup ZeroEnding(MaxFeed)}
          /\ prediction_history = Absent
       \/ /\ callee = "script.run_daily_prediction"
          /\ provider \in {ProviderDown}
                 \cup {ProviderRows(d) : d \in ScriptSeriesSet(MaxFeedScript)}
          /\ prediction_history \in {Absent, Corrupt, NotAList, EarlierHistory}
    /\ \E docs \in InitialDocs :
           /\ index_html = docs.index_html
           /\ data_json = docs.data_json
    /\ docs_dir \in DirectoryOf({index_html, data_json, prediction_history})
    /\ fetch_count = 0
    /\ stages = <<>>
    /\ charts = None
    /\ created_forecast = None
    /\ now = None
    /\ market_status = None
    /\ html_content = None
    /\ result = ""
    /\ history_before = prediction_history
    /\ \/ /\ job = ""
          /\ job_script = <<>>
          /\ pc = "fetch"
       \/ /\ job = "start"
          /\ callee = "run_daily_prediction"
          /\ job_script \in {WrittenStep, StepListing}
          /\ pc = "step"
    /\ rng \in Generators
    /\ data = None
    /\ volume = None
    /\ predictions = None
    /\ current_price = None
    /\ changePct = None
    /\ trend = None
    /\ error = ""
    /\ recommendation = None
    /\ web_recommendation = None
    /\ noise = None
    /\ calls = 0
    /\ prev_predictions = None

\* the variables no step of a run changes
runFrame == <<callee, provider, calls, prev_predictions>>

\* the mutant of Fetch: a failed request is repeated once
FetchRetrying ==
    /\ pc = "fetch"
    /\ callee = "run_daily_prediction"
    /\ LET r == fetch_nifty_data(provider)
       IN  /\ fetch_count' = fetch_count + 1
           /\ data' = r.data
           /\ volume' = r.volume
           /\ error' = IF r.error # "" /\ fetch_count = 0 THEN "" ELSE r.error
           /\ stages' = IF r.error = "" THEN Append(stages, "fetch") ELSE stages
           /\ UNCHANGED charts
           /\ pc' = IF r.error = "" THEN "predict"
                    ELSE IF fetch_count = 0 THEN "fetch" ELSE "except"
    /\ UNCHANGED <<predictions, current_price, changePct, trend, noise, rng, recommendation,
                   web_recommendation>>
    /\ UNCHANGED <<created_forecast, now, market_status, html_content, docs_dir, index_html, data_json,
                   prediction_history, result>>
    /\ UNCHANGED runFrame
    /\ UNCHANGED jobVars

\* data = self.fetch_nifty_data(): one request to the provider
Fetch ==
    /\ pc = "fetch"
    /\ callee = "run_daily_prediction"
    /\ LET r == fetch_nifty_data(provider)
       IN  /\ fetch_count' = fetch_count + 1
           /\ data' = r.data
           /\ volume' = r.volume
           /\ error' = r.error
           /\ stages' = IF r.error = "" THEN Append(stages, "fetch") ELSE stages
           /\ UNCHANGED charts
           /\ pc' = IF r.error = "" THEN "predict" ELSE "except"
    /\ UNCHANGED <<predictions, current_price, changePct, trend, noise, rng, recommendation,
                   web_recommendation>>
    /\ UNCHANGED <<created_forecast, now, market_status, html_content, docs_dir, index_html, data_json,
                   prediction_history, result>>
    /\ UNCHANGED runFrame
    /\ UNCHANGED jobVars

\* the run keeps r, the return or the error of make_predictions, and goes
\* on to the step next when it is a return
KeepForecast(r, next) ==
    /\ error' = r.error
    /\ trend' = r.trend
    /\ noise' = r.noise
    /\ predictions' = r.predictions
    /\ rng' = r.rng
    /\ created_forecast' = r.predictions
    /\ stages' = IF r.error = "" THEN stages \o <<"trend", "prediction">> ELSE stages
    /\ UNCHANGED charts
    /\ pc' = IF r.error = "" THEN next ELSE "except"

\* the mutant of Predict: the run goes on to the market status without a
\* recommendation
PredictSkippingRecommend ==
    /\ pc = "predict"
    /\ callee = "run_daily_prediction"
    /\ KeepForecast(make_predictions(data, rng), "market_status")
    /\ UNCHANGED <<data, volume, current_price, changePct, recommendation, web_recommendation>>
    /\ UNCHANGED <<fetch_count, now, market_status, html_content, docs_dir, index_html, data_json,
                   prediction_history, result>>
    /\ UNCHANGED runFrame
    /\ UNCHANGED jobVars

\* predictions = self.make_predictions(data, rng): the trend estimate and the
\* forecast
Predict ==
    /\ pc = "predict"
    /\ callee = "run_daily_prediction"
    /\ KeepForecast(make_predictions(data, rng), "recommend")
    /\ UNCHANGED <<data, volume, current_price, changePct, recommendation, web_recommendation>>
    /\ UNCHANGED <<fetch_count, now, market_status, html_content, docs_dir, index_html, data_json,
                   prediction_history, result>>
    /\ UNCHANGED runFrame
    /\ UNCHANGED jobVars

\* the mutant of Recommend: the engine also stores the mean of the forecast
\* in the mapping it was given, under the label RNN
RecommendStoringMean ==
    /\ pc = "recommend"
    /\ callee = "run_daily_prediction"
    /\ current_price' = PyFloat(data[Len(data)])
    /\ changePct' = change_pct(predictions, current_price')
    /\ recommendation' = IF IsRaised(changePct') THEN recommendation
                         ELSE recommendation_for(changePct')
    /\ predictions' = [predictions EXCEPT !["RNN"] = avg_prediction(predictions)]
    /\ error' = IF IsRaised(changePct') THEN changePct'.kind ELSE error
    /\ stages' = IF IsRaised(changePct') THEN stages ELSE Append(stages, "recommendation")
    /\ UNCHANGED charts
    /\ pc' = IF IsRaised(changePct') THEN "except" ELSE "market_status"
    /\ UNCHANGED <<data, volume, trend, noise, rng, web_recommendation>>
    /\ UNCHANGED <<fetch_count, created_forecast, now, market_status, html_content, docs_dir, index_html,
                   data_json, prediction_history, result>>
    /\ UNCHANGED runFrame
    /\ UNCHANGED jobVars

\* current_price = float(data['Close'].iloc[-1]);
\* recommendation = self.get_recommendation(predictions, current_price).
\* No check of the price comes before the call; a ZeroDivisionError of the
\* call is caught by the except block of the run.
Recommend ==
    /\ pc = "recommend"
    /\ callee = "run_daily_prediction"
    /\ current_price' = PyFloat(data[Len(data)])
    /\ changePct' = change_pct(predictions, current_price')
    /\ recommendation' = IF IsRaised(changePct') THEN recommendation
                         ELSE recommendation_for(changePct')
    /\ error' = IF IsRaised(changePct') THEN changePct'.kind ELSE error
    /\ stages' = IF IsRaised(changePct') THEN stages ELSE Append(stages, "recommendation")
    /\ UNCHANGED charts
    /\ pc' = IF IsRaised(changePct') THEN "except" ELSE "market_status"
    /\ UNCHANGED <<data, volume, predictions, trend, noise, rng, web_recommendation>>
    /\ UNCHANGED <<fetch_count, created_forecast, now, market_status, html_content, docs_dir, index_html,
                   data_json, prediction_history, result>>
    /\ UNCHANGED runFrame
    /\ UNCHANGED jobVars

\* market_status = self.get_market_status(), at some reading of the clock
MarketStatus ==
    /\ pc = "market_status"
    /\ callee = "run_daily_prediction"
    /\ \E n \in Clock :
           /\ now' = n
           /\ market_status' = get_market_status(n)
    /\ pc' = "render"
    /\ UNCHANGED <<callVars, noise, rng>>
    /\ UNCHANGED <<fetch_count, stages, charts, created_forecast, html_content, docs_dir, index_html, data_json,
                   prediction_history, result>>
    /\ UNCHANGED <<calls, prev_predictions, provider>>
    /\ UNCHANGED jobVars

\* html_content = self.generate_dashboard_html(...)
RenderDashboard ==
    /\ pc = "render"
    /\ callee = "run_daily_prediction"
    /\ html_content' = generate_dashboard_html(data, predictions, recommendation, market_status)
    /\ stages' = Append(stages, "presentation")
    /\ UNCHANGED charts
    /\ pc' = "write_html"
    /\ UNCHANGED <<callVars, noise, rng>>
    /\ UNCHANGED <<fetch_count, created_forecast, now, market_status, docs_dir, index_html, data_json,
                   prediction_history, result>>
    /\ UNCHANGED <<calls, prev_predictions, provider>>
    /\ UNCHANGED jobVars

\* os.makedirs('docs', exist_ok=True);
\* with open('docs/index.html', 'w') as f: f.write(html_content)
WriteIndexHtml ==
    /\ pc = "write_html"
    /\ callee = "run_daily_prediction"
    /\ docs_dir' = TRUE
    /\ index_html' = html_content
    /\ pc' = "save_json"
    /\ UNCHANGED <<callVars, noise, rng>>
    /\ UNCHANGED <<fetch_count, stages, charts, created_forecast, now, market_status, html_content,
                   data_json, prediction_history, result>>
    /\ UNCHANGED <<calls, prev_predictions, provider>>
    /\ UNCHANGED jobVars

\* docs/ and docs/data.json after the call of save_data_json ended with r:
\* os.makedirs('docs', exist_ok=True) and the write happen only when
\* json_data was built
DataJsonSaved(r) ==
    /\ error' = r.error
    /\ docs_dir' = (docs_dir \/ r.error = "")
    /\ data_json' = IF r.error = "" THEN r.file ELSE data_json
    /\ pc' = IF r.error = "" THEN "return" ELSE "except"

\* self.save_data_json(data, predictions, recommendation)
SaveDataJson ==
    /\ pc = "save_json"
    /\ callee = "run_daily_prediction"
    /\ DataJsonSaved(save_data_json(data, volume, predictions, recommendation))
    /\ UNCHANGED <<data, volume, predictions, current_price, changePct, trend, noise, rng,
                   recommendation, web_recommendation>>
    /\ UNCHANGED <<fetch_count, stages, charts, created_forecast, now, market_status, html_content,
                   index_html, prediction_history, result>>
    /\ UNCHANGED runFrame
    /\ UNCHANGED jobVars

\* return True
ReturnTrue ==
    /\ pc = "return"
    /\ callee = "run_daily_prediction"
    /\ result' = "True"
    /\ pc' = "done"
    /\ UNCHANGED <<callVars, noise, rng>>
    /\ UNCHANGED <<fetch_count, stages, charts, created_forecast, now, market_status, html_content,
                   docs_dir, index_html, data_json, prediction_history>>
    /\ UNCHANGED <<calls, prev_predictions, provider>>
    /\ UNCHANGED jobVars

\* the mutant of ErrorPageAndRaise: the handler writes the page and returns
\* False in place of raising
ErrorPageAndReturnFalse ==
    /\ pc = "except"
    /\ callee = "run_daily_prediction"
    /\ docs_dir' = TRUE
    /\ index_html' = generate_error_page(error)
    /\ result' = "False"
    /\ pc' = "done"
    /\ UNCHANGED <<callVars, noise, rng>>
    /\ UNCHANGED <<fetch_count, stages, charts, created_forecast, now, market_status, html_content,
                   data_json, prediction_history>>
    /\ UNCHANGED <<calls, prev_predictions, provider>>
    /\ UNCHANGED jobVars

\* the mutant of ErrorPageAndRaise: the handler raises without writing a page
RaiseOnly ==
    /\ pc = "except"
    /\ callee = "run_daily_prediction"
    /\ result' = "raised"
    /\ pc' = "raised"
    /\ UNCHANGED <<callVars, noise, rng>>
    /\ UNCHANGED <<fetch_count, stages, charts, created_forecast, now, market_status, html_content,
                   docs_dir, index_html, data_json, prediction_history>>
    /\ UNCHANGED <<calls, prev_predictions, provider>>
    /\ UNCHANGED jobVars

\* except Exception as e: self.generate_error_page(str(e)); raise
ErrorPageAndRaise ==
    /\ pc = "except"
    /\ callee = "run_daily_prediction"
    /\ docs_dir' = TRUE
    /\ index_html' = generate_error_page(error)
    /\ result' = "raised"
    /\ pc' = "raised"
    /\ UNCHANGED <<callVars, noise, rng>>
    /\ UNCHANGED <<fetch_count, stages, charts, created_forecast, now, market_status, html_content,
                   data_json, prediction_history>>
    /\ UNCHANGED <<calls, prev_predictions, provider>>
    /\ UNCHANGED jobVars

\* script.py: data = self.data_collector.fetch_nifty_data();
\* processed_data, scaler = self.data_collector.preprocess_data(data)
ScriptFetch ==
    /\ pc = "fetch"
    /\ callee = "script.run_daily_prediction"
    /\ LET r == collector_fetch_nifty_data(provider)
       IN  /\ fetch_count' = fetch_count + 1
           /\ data' = r.data
           /\ volume' = r.volume
           /\ error' = r.error
           /\ stages' = IF r.error = "" THEN Append(stages, "fetch") ELSE stages
           /\ UNCHANGED charts
           /\ pc' = IF r.error = "" THEN "predict" ELSE "except"
    /\ UNCHANGED <<predictions, current_price, changePct, trend, noise, rng, recommendation,
                   web_recommendation>>
    /\ UNCHANGED <<created_forecast, now, market_status, html_content, docs_dir, index_html, data_json,
                   prediction_history, result>>
    /\ UNCHANGED runFrame
    /\ UNCHANGED jobVars

\* the run of script.py keeps r, the return or the error of
\* make_sample_predictions, with the price the call read
ScriptPredicted(r) ==
    /\ current_price' = r.current_price
    /\ KeepForecast(r, "generate_dashboard")

\* script.py: predictions = self.make_sample_predictions(data);
\* model_metrics = self.get_model_metrics()
ScriptPredict ==
    /\ pc = "predict"
    /\ callee = "script.run_daily_prediction"
    /\ ScriptPredicted(make_sample_predictions(data, rng))
    /\ UNCHANGED <<data, volume, changePct, recommendation, web_recommendation>>
    /\ UNCHANGED <<fetch_count, now, market_status, html_content, docs_dir, index_html, data_json,
                   prediction_history, result>>
    /\ UNCHANGED runFrame
    /\ UNCHANGED jobVars

\* generate_dashboard: price_chart = self.create_price_chart(historical_data,
\* predictions): the line of the closes, a dashed line from the last close
\* to each forecast, which starts at historical_data.index[-1] and raises
\* IndexError on a frame without rows, and then the bars of
\* historical_data['Volume'], which raises KeyError on a frame without that
\* column
create_price_chart(d, v, p) ==
    IF Len(d) = 0 THEN Raises("IndexError")
    ELSE IF v = NoColumn THEN Raises("KeyError")
    ELSE [close |-> d, last_close |-> d[Len(d)], predictions |-> p, volume |-> v]

\* generate_dashboard: comparison_chart =
\* self.create_prediction_comparison(predictions): one bar for each forecast,
\* labelled with f'{v:.2f}' after the rupee sign
create_prediction_comparison(p) ==
    [values |-> p, text |-> [k \in DOMAIN p |-> Format2f(p[k], FALSE)]]

\* generate_dashboard, the first statements of its try block: the price
\* chart, the chart of the model metrics and the comparison chart are built
\* from the frame and the forecast, before dashboard_data and so before the
\* recommendation is computed.  An error is logged and raised again.
CreateCharts ==
    /\ pc = "generate_dashboard"
    /\ callee = "script.run_daily_prediction"
    /\ LET price_chart == create_price_chart(data, volume, predictions)
       IN  IF Returned(price_chart) THEN
               /\ charts' = [price_chart      |-> price_chart,
                             metrics_chart    |-> "model_metrics",
                             comparison_chart |-> create_prediction_comparison(predictions)]
               /\ stages' = Append(stages, "charts")
               /\ error' = ""
               /\ pc' = "dashboard_data"
           ELSE
               /\ error' = price_chart.raised
               /\ pc' = "except"
               /\ UNCHANGED <<charts, stages>>
    /\ UNCHANGED <<data, volume, predictions, current_price, changePct, trend, noise, rng,
                   recommendation, web_recommendation>>
    /\ UNCHANGED <<fetch_count, created_forecast, now, market_status, html_content, docs_dir,
                   index_html, data_json, prediction_history, result>>
    /\ UNCHANGED runFrame
    /\ UNCHANGED jobVars

\* generate_dashboard: dashboard_data = {...}, whose entries are evaluated in
\* the order written: the timestamp, the last close, the recommendation
\* self.get_recommendation(predictions, historical_data['Close'].iloc[-1])
\* and, after the charts built before, self.get_market_status()
PrepareDashboardData ==
    /\ pc = "dashboard_data"
    /\ callee = "script.run_daily_prediction"
    /\ changePct' = web_change_pct(predictions, data[Len(data)])
    /\ IF IsRaised(changePct') THEN
           /\ error' = changePct'.kind
           /\ pc' = "except"
           /\ UNCHANGED <<web_recommendation, now, market_status, stages>>
       ELSE
           /\ web_recommendation' = web_ladder(changePct')
           /\ stages' = Append(stages, "recommendation")
           /\ \E n \in Clock :
                  /\ now' = n
                  /\ market_status' = web_get_market_status(n)
           /\ error' = ""
           /\ pc' = "render_template"
    /\ UNCHANGED <<data, volume, predictions, current_price, trend, noise, rng, recommendation>>
    /\ UNCHANGED <<fetch_count, charts, created_forecast, html_content, docs_dir, index_html,
                   data_json, prediction_history, result>>
    /\ UNCHANGED runFrame
    /\ UNCHANGED jobVars

\* generate_dashboard: html_content = self.render_template('dashboard.html',
\* dashboard_data), which raises TemplateNotFound when
\* templates/dashboard.html is not there; os.makedirs('docs', exist_ok=True);
\* the page written to docs/index.html, dashboard_data dumped to
\* docs/data.json; return True.  An error is logged and raised again, before
\* docs/ is made and either file is opened.
RenderAndSaveDashboard ==
    /\ pc = "render_template"
    /\ callee = "script.run_daily_prediction"
    /\ \E template_found \in BOOLEAN :
           IF template_found THEN
               /\ html_content' = dashboard_data("dashboard", data, predictions,
                                                 web_recommendation, market_status, charts)
               /\ docs_dir' = TRUE
               /\ index_html' = html_content'
               /\ data_json' = dashboard_data("json", data, predictions,
                                              web_recommendation, market_status, charts)
               /\ stages' = Append(stages, "presentation")
               /\ error' = ""
               /\ pc' = "save_log"
           ELSE
               /\ UNCHANGED <<html_content, docs_dir, index_html, data_json, stages>>
               /\ error' = "TemplateNotFound"
               /\ pc' = "except"
    /\ UNCHANGED <<data, volume, predictions, current_price, changePct, trend, noise, rng,
                   recommendation, web_recommendation>>
    /\ UNCHANGED <<fetch_count, charts, created_forecast, now, market_status,
                   prediction_history, result>>
    /\ UNCHANGED runFrame
    /\ UNCHANGED jobVars

\* script.py: success = self.web_generator.generate_dashboard(predictions,
\* data, model_metrics), statement by statement: the charts, then
\* dashboard_data with the recommendation and the market status, then the
\* rendered page and the two files
GenerateDashboard ==
    \/ CreateCharts
    \/ PrepareDashboardData
    \/ RenderAndSaveDashboard

\* script.py: if success: self.save_prediction_log(predictions, data); the
\* method ends without a return statement
ScriptSaveLog ==
    /\ pc = "save_log"
    /\ callee = "script.run_daily_prediction"
    /\ LET r == save_prediction_log(predictions, data, volume, "this", prediction_history,
                                     docs_dir)
       IN  /\ prediction_history' = r.file
           /\ error' = r.error
           /\ result' = IF r.error = "" THEN "None" ELSE result
           /\ pc' = IF r.error = "" THEN "done" ELSE "except"
    /\ UNCHANGED <<data, volume, predictions, current_price, changePct, trend, noise, rng,
                   recommendation, web_recommendation>>
    /\ UNCHANGED <<fetch_count, stages, charts, created_forecast, now, market_status, html_content,
                   docs_dir, index_html, data_json>>
    /\ UNCHANGED runFrame
    /\ UNCHANGED jobVars

\* the mutant of ScriptErrorPageAndRaise: the failed run is logged in the
\* history as well
ScriptErrorPageAndLog ==
    /\ pc = "except"
    /\ callee = "script.run_daily_prediction"
    /\ UNCHANGED docs_dir
    /\ index_html' = script_generate_error_page(error, index_html).index_html
    /\ error' = script_generate_error_page(error, index_html).error
    /\ prediction_history' =
           [kind    |-> "json",
            entries |-> LastEntries(Append(IF prediction_history.kind = "json"
                                           THEN prediction_history.entries ELSE <<>>,
                                           [timestamp |-> "this", current_price |-> None,
                                            predictions |-> None]))]
    /\ result' = "raised"
    /\ pc' = "raised"
    /\ UNCHANGED <<predictions, current_price, changePct, recommendation,
                   web_recommendation, data, volume, trend, callee, noise, rng>>
    /\ UNCHANGED <<fetch_count, stages, charts, created_forecast, now, market_status, html_content,
                   data_json>>
    /\ UNCHANGED <<calls, prev_predictions, provider>>
    /\ UNCHANGED jobVars

\* script.py: except Exception as e: self.generate_error_page(str(e)); raise.
\* The NameError of generate_error_page leaves the except block in place of
\* the error that was caught, and the raise statement is not reached.
ScriptErrorPageAndRaise ==
    /\ pc = "except"
    /\ callee = "script.run_daily_prediction"
    /\ UNCHANGED docs_dir
    /\ index_html' = script_generate_error_page(error, index_html).index_html
    /\ error' = script_generate_error_page(error, index_html).error
    /\ result' = "raised"
    /\ pc' = "raised"
    /\ UNCHANGED <<predictions, current_price, changePct, recommendation,
                   web_recommendation, data, volume, trend, callee, noise, rng>>
    /\ UNCHANGED <<fetch_count, stages, charts, created_forecast, now, market_status, html_content,
                   data_json, prediction_history>>
    /\ UNCHANGED <<calls, prev_predictions, provider>>
    /\ UNCHANGED jobVars

\* deploy_dashboard.yml, 'Generate dashboard': the shell runs python -c with
\* the words of the step.  A program that does not compile ends the step
\* with exit status 1 before run_daily_prediction is called; one that
\* compiles enters its try block, where it calls run_daily_prediction of the
\* class it imported from src.predictor.
StepPython ==
    /\ pc = "step"
    /\ job = "start"
    /\ LET words == argv(job_script)
       IN IF Len(words) >= 3 /\ words[1] = <<"python">> /\ words[2] = <<"-c">>
             /\ Compiles(words[3])
          THEN /\ job' = "running"
               /\ pc' = "fetch"
               /\ error' = error
          ELSE /\ job' = "failed"
               /\ pc' = "exit"
               /\ error' = "SyntaxError"
    /\ UNCHANGED <<data, volume, predictions, current_price, changePct, trend, recommendation,
                   web_recommendation, noise, rng>>
    /\ UNCHANGED <<fetch_count, stages, charts, created_forecast, now, market_status, html_content,
                   docs_dir, index_html, data_json, prediction_history, result>>
    /\ UNCHANGED runFrame
    /\ UNCHANGED <<history_before, job_script>>

\* the step after run_daily_prediction returned: the success line is printed
\* and the step completes
StepSuccess ==
    /\ pc = "done"
    /\ job = "running"
    /\ job' = "completed"
    /\ pc' = "exit"
    /\ UNCHANGED <<callVars, noise, rng>>
    /\ UNCHANGED <<fetch_count, stages, charts, created_forecast, now, market_status, html_content,
                   docs_dir, index_html, data_json, prediction_history, result>>
    /\ UNCHANGED runFrame
    /\ UNCHANGED <<history_before, job_script>>

\* the step's except Exception as e: docs/ is made, the placeholder page is
\* written over docs/index.html and the step completes
StepExcept ==
    /\ pc = "raised"
    /\ job = "running"
    /\ docs_dir' = TRUE
    /\ index_html' = FallbackPage
    /\ job' = "completed"
    /\ pc' = "exit"
    /\ UNCHANGED <<callVars, noise, rng>>
    /\ UNCHANGED <<fetch_count, stages, charts, created_forecast, now, market_status, html_content,
                   data_json, prediction_history, result>>
    /\ UNCHANGED runFrame
    /\ UNCHANGED <<history_before, job_script>>

Next ==
    \/ Fetch
    \/ Predict
    \/ Recommend
    \/ MarketStatus
    \/ RenderDashboard
    \/ WriteIndexHtml
    \/ SaveDataJson
    \/ ReturnTrue
    \/ ErrorPageAndRaise
    \/ ScriptFetch
    \/ ScriptPredict
    \/ GenerateDashboard
    \/ ScriptSaveLog
    \/ ScriptErrorPageAndRaise
    \/ StepPython
    \/ StepSuccess
    \/ StepExcept

Spec == InitRun /\ [][Next]_vars

(***************************************************************************)
(* Calls of get_market_status at chosen readings of the clock.             *)
(***************************************************************************)
\* seconds of the day around the two limits, midnight, noon and the last one
ClockSeconds ==
    {0, MarketOpenSecond - 1, MarketOpenSecond, MarketOpenSecond + 1, 12 * 3600,
     MarketCloseSecond - 1, MarketCloseSecond, MarketCloseSecond + 1, 24 * 3600 - 1}

\* the first, the second and the last microsecond of a second
ClockMicros == {0, 1, 999999}

ClockReadings ==
    {Reading(w, t, u) : w \in 0 .. 6, t \in ClockSeconds, u \in ClockMicros}

InitClock ==
    /\ pc = "call"
    /\ callee \in {"get_market_status", "web.get_market_status"}
    /\ now \in ClockReadings
    /\ market_status = None
    /\ predictions = None
    /\ current_price = None
    /\ recommendation = None
    /\ web_recommendation = None
    /\ data = <<>>
    /\ volume = None
    /\ trend = None
    /\ error = ""
    /\ noise = None
    /\ rng = None
    /\ changePct = None
    /\ calls = 0
    /\ prev_predictions = None
    /\ provider = None
    /\ fetch_count = 0
    /\ stages = <<>>
    /\ charts = None
    /\ created_forecast = None
    /\ html_content = None
    /\ docs_dir = FALSE
    /\ index_html = Absent
    /\ data_json = Absent
    /\ prediction_history = Absent
    /\ result = ""
    /\ history_before = Absent
    /\ job = ""
    /\ job_script = <<>>

\* everything but the position of the call and the status it returns
clockFrame == <<callVars, repeatVars, provider, fetch_count, stages, charts, created_forecast, now,
                html_content, docs_dir, index_html, data_json, prediction_history, result, jobVars>>

GetMarketStatus ==
    /\ pc = "call"
    /\ callee = "get_market_status"
    /\ market_status' = get_market_status(now)
    /\ pc' = "returned"
    /\ UNCHANGED clockFrame

WebGetMarketStatus ==
    /\ pc = "call"
    /\ callee = "web.get_market_status"
    /\ market_status' = web_get_market_status(now)
    /\ pc' = "returned"
    /\ UNCHANGED clockFrame

NextClock == GetMarketStatus \/ WebGetMarketStatus

SpecClock == InitClock /\ [][NextClock]_vars

(***************************************************************************)
(* Calls of save_prediction_log on chosen stored histories.                *)
(***************************************************************************)
\* the i-th entry of the history a call finds
StoredEntry(i) == [call |-> 0, seq |-> i]

\* the entry the k-th call appends, with k for its timestamp
CallEntry(k) == log_entry(predictions, data, volume, k)

\* a stored history of n entries
StoredList(n) == [kind |-> "json", entries |-> [i \in 1 .. n |-> StoredEntry(i)]]

\* what docs/prediction_history.json may hold before the first call
StoredHistories ==
    {Absent, Corrupt, Undecodable, NotAList} \cup {StoredList(n) : n \in 0 .. MaxStored}

InitLog ==
    /\ pc = "call"
    /\ callee = "save_prediction_log"
    /\ prediction_history \in StoredHistories
    /\ history_before = prediction_history
    /\ docs_dir \in DirectoryOf({prediction_history})
    /\ calls = 0
    /\ error = ""
    /\ predictions = [l \in Labels |-> Close(2)]
    /\ current_price = None
    /\ recommendation = None
    /\ web_recommendation = None
    /\ data \in SeriesSet(1)
    /\ volume \in {NoColumn, SessionVolume}
    /\ trend = None
    /\ noise = None
    /\ rng = None
    /\ changePct = None
    /\ prev_predictions = None
    /\ provider = None
    /\ fetch_count = 0
    /\ stages = <<>>
    /\ charts = None
    /\ created_forecast = None
    /\ now = None
    /\ market_status = None
    /\ html_content = None
    /\ index_html = Absent
    /\ data_json = Absent
    /\ result = ""
    /\ job = ""
    /\ job_script = <<>>

\* one call of save_prediction_log; a call that raised is not repeated
SavePredictionLog ==
    /\ pc = "call"
    /\ callee = "save_prediction_log"
    /\ calls < MaxSaves
    /\ LET r == save_prediction_log(predictions, data, volume, calls + 1,
                                     prediction_history, docs_dir)
       IN  /\ prediction_history' = r.file
           /\ error' = r.error
           /\ pc' = IF r.error = "" THEN "call" ELSE "raised"
    /\ calls' = calls + 1
    /\ UNCHANGED <<predictions, current_price, changePct, recommendation,
                   web_recommendation, data, volume, trend, callee, noise, rng, prev_predictions>>
    /\ UNCHANGED <<provider, fetch_count, stages, charts, created_forecast, now, market_status,
                   html_content, docs_dir, index_html, data_json, result>>
    /\ UNCHANGED <<history_before, job, job_script>>

NextLog == SavePredictionLog

SpecLog == InitLog /\ [][NextLog]_vars

(***************************************************************************)
(* Properties of get_recommendation, checked under SpecRec.                *)
(***************************************************************************)
\* the call has returned a recommendation
Recommended == pc = "returned" /\ error = ""

\* the (action, confidence) pair a call returned
Pair(r) == <<r.action, r.confidence>>

\* the numbers the claims name, as floats
Zero == DInt(0)
TwoPercent == DInt(2)
HalfPercent == DDec(5, 1)
MinusHalfPercent == DDec(-5, 1)
MinusTwoPercent == DInt(-2)
JustOverTwoPercent == DDec(20001, 4)
JustUnderMinusTwoPercent == DDec(-20001, 4)

\* C1: every change_pct gets exactly the pair of the first matching row of
\* the ladder: above 2 BUY/High, else above 0.5 HOLD/Medium (moderate
\* upward), else above -0.5 HOLD/Medium (stable), else above -2
\* CAUTION/Medium, and otherwise SELL/High.
C1_LadderFirstMatch ==
    Recommended =>
        LET c == changePct
            r == recommendation
        IN  /\ DGt(c, TwoPercent)
                => Pair(r) = <<"BUY", "High">> /\ r.color = "#28a745"
            /\ (~DGt(c, TwoPercent) /\ DGt(c, HalfPercent))
                => Pair(r) = <<"HOLD", "Medium">> /\ r.color = "#ffc107"
            /\ (~DGt(c, HalfPercent) /\ DGt(c, MinusHalfPercent))
                => Pair(r) = <<"HOLD", "Medium">> /\ r.color = "#6c757d"
            /\ (~DGt(c, MinusHalfPercent) /\ DGt(c, MinusTwoPercent))
                => Pair(r) = <<"CAUTION", "Medium">> /\ r.color = "#fd7e14"
            /\ ~DGt(c, MinusTwoPercent)
                => Pair(r) = <<"SELL", "High">> /\ r.color = "#dc3545"

\* a call whose change lies strictly inside the CAUTION row has returned
C1_Witness ==
    /\ Recommended
    /\ DGt(MinusHalfPercent, changePct)
    /\ DGt(changePct, MinusTwoPercent)
    /\ recommendation.action = "CAUTION"

\* C2: a change of exactly 2.0 returns HOLD/Medium and a change of 2.0001
\* returns BUY/High.
C2_UpperBoundary ==
    Recommended =>
        /\ DEq(changePct, TwoPercent)
            => Pair(recommendation) = <<"HOLD", "Medium">>
        /\ DEq(changePct, JustOverTwoPercent)
            => Pair(recommendation) = <<"BUY", "High">>

\* the call with a change of exactly 2.0 has returned HOLD
C2_Witness ==
    /\ Recommended
    /\ DEq(changePct, TwoPercent)
    /\ recommendation.action = "HOLD"

\* the call with a change of 2.0001 has returned BUY
C2_WitnessAbove ==
    /\ Recommended
    /\ DEq(changePct, JustOverTwoPercent)
    /\ recommendation.action = "BUY"

\* C3 (as claimed): a change of exactly -2.0 returns CAUTION/Medium and a
\* change of -2.0001 returns SELL/High.
C3_LowerBoundary ==
    Recommended =>
        /\ DEq(changePct, MinusTwoPercent)
            => Pair(recommendation) = <<"CAUTION", "Medium">>
        /\ DEq(changePct, JustUnderMinusTwoPercent)
            => Pair(recommendation) = <<"SELL", "High">>

\* C4: a change exactly equal to a threshold falls into the next lower
\* bucket in both implementations: 2.0 moderate-upward HOLD, 0.5 stable
\* HOLD, -0.5 CAUTION, -2.0 SELL.
C4_StrictThresholds ==
    Recommended =>
        \A r \in {recommendation, web_recommendation} :
            /\ DEq(changePct, TwoPercent)
                => r.action = "HOLD" /\ r.reason.text = "Moderate upward trend predicted"
            /\ DEq(changePct, HalfPercent)
                => r.action = "HOLD" /\ r.reason.text = "Stable trend predicted"
            /\ DEq(changePct, MinusHalfPercent)
                => r.action = "CAUTION"
            /\ DEq(changePct, MinusTwoPercent)
                => r.action = "SELL"

\* both implementations were called with a change of exactly -0.5
C4_Witness ==
    /\ Recommended
    /\ DEq(changePct, MinusHalfPercent)
    /\ recommendation.action = "CAUTION"
    /\ web_recommendation.action = "CAUTION"

\* the arithmetic mean of the three forecast values: their sum, added up
\* from 0 in the order of the keys, divided by their number
MeanOf(p) == DDiv(DAdd(DAdd(DAdd(Zero, p["RNN"]), p["LSTM"]), p["CNN"]), DInt(3))

\* (avg - currentPrice) / currentPrice * 100
ChangeOf(avg, cp) == DMul(DDiv(DSub(avg, cp), cp), DInt(100))

\* the action of the first row of the ladder that matches the change c
ActionFor(c) ==
    IF DGt(c, TwoPercent) THEN "BUY"
    ELSE IF DGt(c, HalfPercent) THEN "HOLD"
    ELSE IF DGt(c, MinusHalfPercent) THEN "HOLD"
    ELSE IF DGt(c, MinusTwoPercent) THEN "CAUTION"
    ELSE "SELL"

\* C5: get_recommendation computes avg as the arithmetic mean of all values
\* of the forecast and changePct as (avg - currentPrice) / currentPrice * 100,
\* and the ladder is applied to that changePct and to nothing else: the
\* result is the one the ladder gives for that number, and its action is the
\* action of the first matching row for it.
C5_MeanAndChange ==
    Recommended =>
        /\ changePct = ChangeOf(MeanOf(predictions), current_price)
        /\ recommendation = ladder(ChangeOf(MeanOf(predictions), current_price))
        /\ recommendation.action = ActionFor(ChangeOf(MeanOf(predictions), current_price))

\* a call has returned on a forecast whose RNN value lies below the price
\* and whose other values lie above it: the mean, 0.5 percent or more above
\* the price, decides for the moderate upward HOLD
C5_Witness ==
    /\ Recommended
    /\ DGt(current_price, predictions["RNN"])
    /\ DGt(predictions["LSTM"], current_price)
    /\ DGt(predictions["CNN"], current_price)
    /\ changePct = ChangeOf(MeanOf(predictions), current_price)
    /\ DGt(changePct, HalfPercent)
    /\ recommendation.action = "HOLD"
    /\ recommendation.color = "#ffc107"

\* a call has returned on a forecast with one value above the price and a
\* mean below it, which decides for CAUTION
C5_WitnessBelow ==
    /\ Recommended
    /\ DGt(predictions["RNN"], current_price)
    /\ DGt(MinusHalfPercent, changePct)
    /\ recommendation.action = "CAUTION"

\* the state after the call on the sample dashboard's numbers
ChartScenarioReturned ==
    /\ Recommended
    /\ current_price = ChartScenario.cp
    /\ predictions = ChartScenario.p

\* the change, rounded to four decimals, is n ten-thousandths
ChangeIsAbout(n) ==
    changePct.kind = "finite" /\ ~changePct.neg /\ BToInt(Scaled(changePct, 4)) = n

\* C6 (as claimed): for 21450.75 against {21520, 21580, 21490} the result is
\* HOLD/Medium with "+0.37%" in the reason, avg 21530 and changePct 0.3693.
C6_ScenarioAsClaimed ==
    ChartScenarioReturned =>
        /\ Pair(recommendation) = <<"HOLD", "Medium">>
        /\ recommendation.reason.signs = <<"+">>
        /\ recommendation.reason.hundredths = 37
        /\ DEq(avg_prediction(predictions), DInt(21530))
        /\ ChangeIsAbout(3693)

\* C6 (amended): the same with changePct 0.3695 (0.36945...).
C6_Scenario ==
    ChartScenarioReturned =>
        /\ Pair(recommendation) = <<"HOLD", "Medium">>
        /\ recommendation.reason.signs = <<"+">>
        /\ recommendation.reason.hundredths = 37
        /\ DEq(avg_prediction(predictions), DInt(21530))
        /\ ChangeIsAbout(3695)

\* the call on the sample dashboard's numbers has returned HOLD
C6_Witness == ChartScenarioReturned /\ recommendation.action = "HOLD"

\* h is a nearest whole number to |c| * 10^digits, for a finite c
IsNearestCount(c, h, digits) ==
    LET n == BMul(c.m, BPow10(digits))
    IN  IF c.e >= 0 THEN BShl(n, c.e) = BFromInt(h)
        ELSE /\ h = 0 \/ BCmp(BMulSmall(n, 2), BShl(BFromInt(2 * h - 1), 0 - c.e)) >= 0
             /\ BCmp(BMulSmall(n, 2), BShl(BFromInt(2 * h + 1), 0 - c.e)) <= 0

\* C7: the reason carries change_pct rounded to two decimals with exactly
\* one sign character: '+' when change_pct >= 0 and '-' when it is negative.
C7_SignedTwoDecimals ==
    Recommended =>
        LET c == changePct
            r == recommendation.reason
        IN  /\ DGe(c, Zero) => r.signs = <<"+">>
            /\ DGt(Zero, c) => r.signs = <<"-">>
            /\ c.kind = "finite" => r.special = "" /\ IsNearestCount(c, r.hundredths, 2)

\* a negative change inside the stable row has been formatted
C7_Witness ==
    /\ Recommended
    /\ DGt(Zero, changePct)
    /\ recommendation.reason.text = "Stable trend predicted"
    /\ recommendation.reason.signs = <<"-">>
    /\ recommendation.reason.hundredths > 0

(***************************************************************************)
(* The values a recommendation takes, checked under SpecRec.               *)
(***************************************************************************)
\* calls that go through the ladder from top to bottom: a price of 200.0
\* against forecasts of 190, 196, 198, 200, 202 and 210
ActionProbes ==
    {[cp |-> DInt(BasePrice), p |-> Flat(DInt(BasePrice + v))] : v \in {-10, -4, -2, 0, 2, 10}}

\* the actions get_recommendation returns on them
ActionsReturned == {get_recommendation(i.p, i.cp).action : i \in ActionProbes}

\* C20 (as claimed): the action is one of a fixed enumeration of 5 values,
\* the confidence one of High and Medium, and the actions that can be
\* returned are that 5-value enumeration.
C20_FiveActionsAsClaimed ==
    Recommended =>
        /\ recommendation.action \in ActionsReturned
        /\ recommendation.confidence \in {"High", "Medium"}
        /\ Cardinality(ActionsReturned) = 5

\* C20 (amended): the five rows of the ladder return four actions, BUY,
\* HOLD (twice), CAUTION and SELL.
C20_FourActions ==
    Recommended =>
        /\ recommendation.action \in {"BUY", "HOLD", "CAUTION", "SELL"}
        /\ recommendation.action \in ActionsReturned
        /\ recommendation.confidence \in {"High", "Medium"}
        /\ ActionsReturned = {"BUY", "HOLD", "CAUTION", "SELL"}

\* a call has returned SELL with confidence High
C20_Witness ==
    /\ Recommended
    /\ recommendation.action = "SELL"
    /\ recommendation.confidence = "High"

(***************************************************************************)
(* The ladder as a whole, checked under SpecRec.                           *)
(***************************************************************************)
\* C22 (as claimed): the documented guidance matches the engine: BUY exactly
\* when the change is > 2%, HOLD exactly when it is between -0.5% and +2%,
\* SELL exactly when it is < -2% (a change of exactly -2% is not a SELL).
C22_GuidanceMatches ==
    (Recommended /\ changePct.kind = "finite") =>
        \A r \in {recommendation, web_recommendation} :
            LET c == changePct
            IN  /\ r.action = "BUY" <=> DGt(c, TwoPercent)
                /\ r.action = "HOLD" => (DGe(c, MinusHalfPercent) /\ DGe(TwoPercent, c))
                /\ (DGt(c, MinusHalfPercent) /\ DGt(TwoPercent, c)) => r.action = "HOLD"
                /\ r.action = "SELL" <=> DGt(MinusTwoPercent, c)

\* what holds of the guidance: BUY and HOLD are issued as documented (HOLD
\* for -0.5% < change <= 2%), SELL is issued for every change <= -2%
C22_GuidanceAsCoded ==
    (Recommended /\ changePct.kind = "finite") =>
        \A r \in {recommendation, web_recommendation} :
            LET c == changePct
            IN  /\ r.action = "BUY" <=> DGt(c, TwoPercent)
                /\ r.action = "HOLD" <=> (DGt(c, MinusHalfPercent) /\ DGe(TwoPercent, c))
                /\ r.action = "SELL" <=> DGe(MinusTwoPercent, c)

\* C25: the implementations of get_recommendation in predictor.py and in
\* web_generator.py return the same action, confidence, reason and colour
\* for every forecast and every current price, and where one raises the
\* other raises too.
C25_SameRecommendation ==
    pc = "returned" =>
        /\ web_recommendation = None <=> recommendation = None
        /\ recommendation # None =>
               /\ web_recommendation.action = recommendation.action
               /\ web_recommendation.confidence = recommendation.confidence
               /\ web_recommendation.reason = recommendation.reason
               /\ web_recommendation.color = recommendation.color

\* both were called with a change of exactly 0.5 and answered alike
C25_Witness ==
    /\ Recommended
    /\ DEq(changePct, HalfPercent)
    /\ web_recommendation = recommendation
    /\ recommendation.reason.text = "Stable trend predicted"

\* the place of an action in the order SELL < CAUTION < HOLD < BUY
Rank(a) == CASE a = "SELL" -> 0 [] a = "CAUTION" -> 1 [] a = "HOLD" -> 2 [] a = "BUY" -> 3

\* the inputs every call is compared with: the two boundary scenarios and
\* the flat forecasts of whole rupees, whose changes are -2, -1.5, ..., 2
\* when MaxDev is 4
LadderProbes ==
    {[cp |-> DInt(BasePrice), p |-> Flat(v)] : v \in WholeValues}
        \cup {JustAboveUpper, JustBelowLower}

\* the change of each of them and the places of the actions the two
\* implementations return for it
ProbeResults ==
    {[change   |-> change_pct(i.p, i.cp),
      rank     |-> Rank(get_recommendation(i.p, i.cp).action),
      web_rank |-> Rank(web_get_recommendation(i.p, i.cp).action)] : i \in LadderProbes}

\* C27: the ladder is monotone: for changes a <= b the action for b is never
\* more bearish than the action for a, in the order SELL < CAUTION < HOLD <
\* BUY, in both implementations.
C27_Monotone ==
    Recommended =>
        \A i \in ProbeResults :
            /\ DGe(i.change, changePct) =>
                   /\ Rank(recommendation.action) <= i.rank
                   /\ Rank(web_recommendation.action) <= i.web_rank
            /\ DGe(changePct, i.change) =>
                   /\ i.rank <= Rank(recommendation.action)
                   /\ i.web_rank <= Rank(web_recommendation.action)

\* a call that returned CAUTION while other inputs, with a smaller and with
\* a larger change, get SELL and BUY
C27_Witness ==
    /\ Recommended
    /\ recommendation.action = "CAUTION"
    /\ \E i \in ProbeResults : DGe(changePct, i.change) /\ i.rank = 0
    /\ \E i \in ProbeResults : DGe(i.change, changePct) /\ i.rank = 3

(***************************************************************************)
(* Properties of the trend estimate, checked under SpecPredict.            *)
(***************************************************************************)
\* the call returned a forecast
Predicted(f) == pc = "returned" /\ callee = f /\ error = ""

\* C8: the trend is (lastClose - closeAtLookbackStart) / closeAtLookbackStart
\* with closeAtLookbackStart the 10th-from-last close in predictor.py and the
\* 5th-from-last close in script.py, on a series that holds the window.
C8_TrendFormula ==
    /\ (Predicted("make_predictions") /\ Len(data) >= 10) =>
           LET last  == data[Len(data)]
               start == data[Len(data) - 9]
           IN  DEq(trend, DDiv(DSub(last, start), start))
    /\ (Predicted("make_sample_predictions") /\ Len(data) >= 5) =>
           LET last  == data[Len(data)]
               start == data[Len(data) - 4]
           IN  DEq(trend, DDiv(DSub(last, start), start))

\* make_predictions has returned a trend that is not 0 on a series longer
\* than its window
C8_Witness ==
    /\ Predicted("make_predictions")
    /\ Len(data) > 10
    /\ ~IsZero(trend)
    /\ DEq(trend, DDiv(DSub(data[Len(data)], data[Len(data) - 9]), data[Len(data) - 9]))

\* make_predictions has returned on a series whose first close, which lies
\* before the window, differs from the 10th-from-last
C8_WitnessWindow ==
    /\ Predicted("make_predictions")
    /\ Len(data) > 10
    /\ data[1] # data[Len(data) - 9]

\* make_sample_predictions has returned with a trend that is not 0
C8_WitnessScript ==
    /\ Predicted("make_sample_predictions")
    /\ Len(data) > 5
    /\ ~IsZero(trend)

\* every close multiplied by k
ScaledSeries(d, k) == [i \in 1 .. Len(d) |-> DMul(d[i], DInt(k))]

\* the trend of the series of the call after every close was multiplied by k
ScaledTrend(k) ==
    IF callee = "make_predictions" THEN predictor_trend(ScaledSeries(data, k))
    ELSE script_recent_change(ScaledSeries(data, k))

\* the first call on a series has returned a forecast
FirstForecast == pc = "returned" /\ error = "" /\ calls = 1

\* C9 (as claimed): multiplying every close by the same positive factor
\* leaves the trend unchanged.
C9_ScaleInvariantAsClaimed ==
    FirstForecast =>
        \A k \in 2 .. MaxScale : DEq(ScaledTrend(k), trend)

\* k is a power of two
IsPowerOfTwo(k) == \E n \in 0 .. k : 2 ^ n = k

\* C9 (amended): multiplying every close of a window of positive closes by
\* a power of two, as doubling does, leaves the computed trend unchanged.
C9_ScaleInvariant ==
    FirstForecast =>
        \A k \in 2 .. MaxScale :
            IsPowerOfTwo(k) => DEq(ScaledTrend(k), trend)

\* make_predictions has returned a trend that is not 0 on a full window,
\* which doubling the closes and multiplying them by four leave as it is
\* and tripling them does not
C9_Witness ==
    /\ FirstForecast
    /\ callee = "make_predictions"
    /\ Len(data) >= 10
    /\ ~IsZero(trend)
    /\ DEq(ScaledTrend(2), trend)
    /\ DEq(ScaledTrend(4), trend)
    /\ ~DEq(ScaledTrend(3), trend)

\* the same on a falling window
C9_WitnessFalling ==
    /\ FirstForecast
    /\ callee = "make_predictions"
    /\ Len(data) >= 10
    /\ trend.neg
    /\ DEq(ScaledTrend(2), trend)
    /\ ~DEq(ScaledTrend(3), trend)

\* make_sample_predictions has returned a trend that is not 0, which
\* doubling the closes leaves as it is
C9_WitnessScript ==
    /\ FirstForecast
    /\ callee = "make_sample_predictions"
    /\ Len(data) >= 5
    /\ ~IsZero(trend)
    /\ DEq(ScaledTrend(2), trend)
    /\ DEq(ScaledTrend(4), trend)

\* C10 (as claimed): on a series shorter than the lookback window the call
\* fails and produces neither a trend nor a forecast.
C10_ShortSeriesFails ==
    /\ (pc = "returned" /\ callee = "make_predictions" /\ Len(data) < LookbackPredictor)
           => error # "" /\ trend = None /\ predictions = None
    /\ (pc = "returned" /\ callee = "make_sample_predictions" /\ Len(data) < LookbackScript)
           => error # "" /\ trend = None /\ predictions = None

\* the script.py variant alone does fail on a short series
C10_ScriptVariantFails ==
    (pc = "returned" /\ callee = "make_sample_predictions" /\ Len(data) < LookbackScript)
        => error = "IndexError" /\ trend = None /\ predictions = None

(***************************************************************************)
(* Properties of the forecast, checked under SpecPredict.                  *)
(***************************************************************************)
\* the weights 0.8, 1.2 and 0.6
ClaimedWeight == ("RNN" :> DDec(8, 1)) @@ ("LSTM" :> DDec(12, 1)) @@ ("CNN" :> DDec(6, 1))

\* currentPrice * (1 + trend * weight + noise) for the label l
ClaimedProduct(l) ==
    DMul(current_price, DAdd(DAdd(DInt(1), DMul(trend, ClaimedWeight[l])), noise[l]))

\* the forecast value of label l is the claimed product
IsExactPrediction(l) == DEq(predictions[l], ClaimedProduct(l))

\* the forecast value of label l is the claimed product rounded to two
\* decimals
IsRoundedPrediction(l) == DEq(predictions[l], np_round(ClaimedProduct(l)))

\* C13 (as claimed): the forecast has exactly the labels RNN, LSTM, CNN and
\* each value equals currentPrice * (1 + trend * weight + noise) with the
\* weights 0.8, 1.2, 0.6 and one noise draw per label.
C13_ForecastFormulaAsClaimed ==
    /\ Predicted("make_predictions") =>
           /\ DOMAIN predictions = {"RNN", "LSTM", "CNN"}
           /\ DOMAIN noise = {"RNN", "LSTM", "CNN"}
           /\ \A l \in DOMAIN predictions : IsExactPrediction(l)
    /\ Predicted("make_sample_predictions") =>
           /\ DOMAIN predictions = {"RNN", "LSTM", "CNN"}
           /\ DOMAIN noise = {"RNN", "LSTM", "CNN"}
           /\ \A l \in DOMAIN predictions : IsExactPrediction(l)

\* C13 (amended): the same, with the value of predictor.py being the product
\* rounded to two decimals and the value of script.py the product itself.
C13_ForecastFormula ==
    /\ Predicted("make_predictions") =>
           /\ DOMAIN predictions = {"RNN", "LSTM", "CNN"}
           /\ DOMAIN noise = {"RNN", "LSTM", "CNN"}
           /\ \A l \in DOMAIN predictions : IsRoundedPrediction(l)
    /\ Predicted("make_sample_predictions") =>
           /\ DOMAIN predictions = {"RNN", "LSTM", "CNN"}
           /\ DOMAIN noise = {"RNN", "LSTM", "CNN"}
           /\ \A l \in DOMAIN predictions : IsExactPrediction(l)

\* make_predictions has returned a forecast on a falling series whose RNN
\* value had to be rounded
C13_Witness ==
    /\ Predicted("make_predictions")
    /\ trend.neg
    /\ ~IsExactPrediction("RNN")
    /\ IsRoundedPrediction("RNN")

\* make_sample_predictions has returned a forecast on a falling series
C13_WitnessScript ==
    /\ Predicted("make_sample_predictions")
    /\ trend.neg
    /\ IsExactPrediction("LSTM")

\* C14 (as claimed): a repeated call on the same price and trend returns the
\* same three-label forecast as the call before it.
C14_Deterministic ==
    (pc = "returned" /\ calls >= 2 /\ error = "") => predictions = prev_predictions

\* predictor.py alone: a repeated call of make_predictions returns the same
\* forecast, whatever state the generator was in
C14_SeededVariant ==
    (Predicted("make_predictions") /\ calls >= 2) => predictions = prev_predictions

\* make_predictions was called a second time on the same series
C14_WitnessSeeded ==
    /\ Predicted("make_predictions")
    /\ calls = 2
    /\ ~IsZero(trend)
    /\ predictions = prev_predictions

(***************************************************************************)
(* Properties of a run of run_daily_prediction, checked under Spec.        *)
(***************************************************************************)
\* run_daily_prediction has been called, directly or by a workflow step
\* whose program compiled, and the caller has not yet acted on its outcome
Called == job \in {"", "running"}

\* the run is one of predictor.py
PredictorRun == callee = "run_daily_prediction" /\ Called

\* the run is one of the script.py variant
ScriptRun == callee = "script.run_daily_prediction" /\ Called

\* the file was written by this run
ThisRun(f) == f.kind # "absent" /\ f.run = "this"

\* the file holds the dashboard, or the error page, of this run
DashboardOfRun(f) == ThisRun(f) /\ f.kind = "dashboard"
ErrorPageOfRun(f) == ThisRun(f) /\ f.kind = "error"

\* the provider answered with a series whose latest close is not positive
NonPositivePrice ==
    /\ provider.ok
    /\ Len(provider.rows) > 0
    /\ ~DGt(provider.rows[Len(provider.rows)], Zero)

\* C11: a prediction with a current price <= 0 fails with an invalid-price
\* error, so that get_recommendation is never invoked with a current price
\* of 0 and never divides by zero.
C11_InvalidPriceRejected ==
    PredictorRun =>
        /\ (NonPositivePrice /\ pc \notin {"fetch", "predict"}) =>
               (error = "InvalidPriceError" /\ predictions = None)
        /\ recommendation # None => DGt(current_price, Zero)

\* what the code does with a latest close of 0: the forecast is 0 for every
\* label, get_recommendation is called with current_price 0, its change is
\* 0/0, no row of the ladder matches and the run returns True with SELL
C11_ZeroPricePublished ==
    /\ PredictorRun
    /\ NonPositivePrice
    /\ pc = "done"
    /\ result = "True"
    /\ IsZero(current_price)
    /\ changePct.kind = "nan"
    /\ recommendation.action = "SELL"
    /\ recommendation.reason.special = "nan"
    /\ data_json.recommendation = recommendation

\* the provider answered with an empty series
EmptyAnswer == provider.ok /\ Len(provider.rows) = 0

\* C12: when the provider returns an empty series, fetch_nifty_data raises
\* the no-data error (ValueError "No data received ...") and returns no
\* series; no forecast, recommendation or dashboard is computed from it.
C12_EmptySeriesRejected ==
    (PredictorRun /\ EmptyAnswer /\ pc # "fetch") =>
        /\ error = "ValueError"
        /\ pc \in {"except", "raised"}
        /\ data = None
        /\ predictions = None
        /\ recommendation = None
        /\ html_content = None
        /\ ~DashboardOfRun(index_html)
        /\ ~ThisRun(data_json)

C12_Witness == PredictorRun /\ EmptyAnswer /\ pc = "raised" /\ error = "ValueError"

\* C15 as stated: an error of any stage is propagated to the caller, a
\* failing run never returns True and leaves no output artefact of that run
\* behind.
C15_NoArtefactAsClaimed ==
    (PredictorRun /\ error # "") =>
        /\ pc \in {"except", "raised"}
        /\ result # "True"
        /\ pc = "raised" => (~ThisRun(index_html) /\ ~ThisRun(data_json))

\* C15, amended: an error of any stage is propagated to the caller and the
\* failing run never returns True; it leaves no docs/data.json of that run
\* and no dashboard of that run behind, the one file it does leave is the
\* error page in docs/index.html.
C15_Propagated ==
    PredictorRun =>
        /\ error # "" => (pc \in {"except", "raised"} /\ result \in {"", "raised"})
        /\ pc = "raised" =>
               /\ error # ""
               /\ result = "raised"
               /\ ~ThisRun(data_json)
               /\ ~DashboardOfRun(index_html)
               /\ ErrorPageOfRun(index_html)
        /\ result = "True" => (error = "" /\ pc = "done")

\* a run that fails while saving, after its dashboard was written
C15_Witness ==
    /\ PredictorRun
    /\ pc = "raised"
    /\ error = "IndexError"
    /\ html_content # None
    /\ ErrorPageOfRun(index_html)

\* C16 as stated: when a run fails, the core writes no placeholder or error
\* page to docs/index.html.
C16_NoFallbackAsClaimed ==
    (PredictorRun /\ error # "") => ~ErrorPageOfRun(index_html)

\* C16, amended: when a run fails, the core itself writes the error page to
\* docs/index.html before it raises the error again, whatever docs/index.html
\* held; it writes that page in no other case.
C16_ErrorPageWritten ==
    PredictorRun =>
        /\ pc = "raised" => index_html = generate_error_page(error)
        /\ ErrorPageOfRun(index_html) => (pc = "raised" /\ error # "")

\* a run that fails at the fetch and replaces the earlier dashboard
C16_Witness ==
    /\ PredictorRun
    /\ pc = "raised"
    /\ ~provider.ok
    /\ data_json = EarlierJson
    /\ index_html = generate_error_page(error)

\* C17: the provider is called exactly once per run, whether the fetch
\* succeeds, returns an empty series or raises; it is never retried.
C17_SingleFetch ==
    PredictorRun =>
        /\ fetch_count <= 1
        /\ pc # "fetch" => fetch_count = 1

\* the three outcomes of the fetch, each at the end of its run
C17_Witness == PredictorRun /\ pc = "raised" /\ ~provider.ok /\ fetch_count = 1
C17_WitnessEmpty == PredictorRun /\ pc = "raised" /\ EmptyAnswer /\ fetch_count = 1
C17_WitnessSuccess == PredictorRun /\ pc = "done" /\ fetch_count = 1

\* the order of the stages
StageOrder == <<"fetch", "trend", "prediction", "recommendation", "presentation">>

\* the order of the work in a run of script.py, whose generate_dashboard
\* builds the three charts of the page before it computes the recommendation
ScriptStageOrder ==
    <<"fetch", "trend", "prediction", "charts", "recommendation", "presentation">>

IsPrefix(a, b) == Len(a) <= Len(b) /\ \A i \in 1 .. Len(a) : a[i] = b[i]

\* the stage a piece of work belongs to: building the charts of the page is
\* work of the presentation layer
StageOf(w) == IF w = "charts" THEN "presentation" ELSE w

\* the stages of the work done so far, in the order it was done
StagesOf(s) == [i \in 1 .. Len(s) |-> StageOf(s[i])]

\* the recommendation of the run
RunRecommendation == IF ScriptRun THEN web_recommendation ELSE recommendation

\* C18 as stated: the stages run in the order fetch, trend estimation,
\* prediction, recommendation, presentation, none skipped or reordered; no
\* recommendation is computed before the forecast exists and no artefact is
\* written before the recommendation exists.
C18_OrderAsClaimed ==
    /\ IsPrefix(StagesOf(stages), StageOrder)
    /\ RunRecommendation # None => created_forecast # None
    /\ (ThisRun(index_html) \/ ThisRun(data_json)) => RunRecommendation # None

\* the order as stated, of the runs of script.py alone: it fails when the
\* charts are built, before the recommendation
C18_ScriptOrderAsClaimed == ScriptRun => IsPrefix(StagesOf(stages), StageOrder)

\* C18, amended: fetch, trend estimation, prediction, recommendation and the
\* writing of the dashboard and of data.json are executed in this order, a
\* run that ends without error has executed all of them, no recommendation
\* is computed before the forecast exists, and no dashboard and no data.json
\* is written before the recommendation exists.  In a run of script.py the
\* charts of the page are built after the prediction and before the
\* recommendation; a run of predictor.py that fails in any stage writes the
\* error page, also when it has no recommendation.
C18_StageOrder ==
    Called =>
        /\ PredictorRun => IsPrefix(stages, StageOrder)
        /\ ScriptRun => IsPrefix(stages, ScriptStageOrder)
        /\ RunRecommendation # None => created_forecast # None
        /\ (DashboardOfRun(index_html) \/ ThisRun(data_json)) => RunRecommendation # None
        /\ pc = "done" => stages = IF ScriptRun THEN ScriptStageOrder ELSE StageOrder
        /\ ErrorPageOfRun(index_html) => (pc = "raised" /\ error # "")
        /\ (PredictorRun /\ pc = "raised") => ErrorPageOfRun(index_html)

\* a run of predictor.py that ended without error, all five stages done
C18_Witness ==
    /\ PredictorRun
    /\ pc = "done"
    /\ stages = StageOrder
    /\ RunRecommendation # None
    /\ DashboardOfRun(index_html)
    /\ ThisRun(data_json)

\* a run of script.py that ended without error
C18_WitnessScript ==
    /\ ScriptRun
    /\ pc = "done"
    /\ stages = ScriptStageOrder
    /\ DashboardOfRun(index_html)

\* a run of script.py that has built its charts and has no recommendation yet
C18_WitnessChartsFirst ==
    /\ ScriptRun
    /\ stages = <<"fetch", "trend", "prediction", "charts">>
    /\ charts # None
    /\ RunRecommendation = None
    /\ ~ThisRun(index_html)

\* a run of predictor.py that failed in the fetch and wrote the error page
C18_WitnessErrorPage ==
    /\ PredictorRun
    /\ pc = "raised"
    /\ stages = <<>>
    /\ RunRecommendation = None
    /\ ErrorPageOfRun(index_html)

\* C19: get_recommendation has no side effects and does not modify the
\* forecast it receives; the forecast the predictor created is the mapping
\* that is rendered into the page and written to the JSON file of the run.
C19_ForecastUnchanged ==
    PredictorRun =>
        /\ created_forecast # None => predictions = created_forecast
        /\ pc = "market_status" =>
               /\ recommendation = get_recommendation(created_forecast, PyFloat(data[Len(data)]))
               /\ data = provider.rows
               /\ error = ""
               /\ fetch_count = 1
               /\ html_content = None
               /\ ~ThisRun(index_html)
               /\ ~ThisRun(data_json)
        /\ DashboardOfRun(index_html) =>
               index_html.shown = [l \in Labels |-> Format0f(created_forecast[l])]
        /\ ThisRun(data_json) => data_json.predictions = created_forecast

C19_Witness ==
    /\ PredictorRun
    /\ pc = "done"
    /\ recommendation # None
    /\ DashboardOfRun(index_html)
    /\ data_json.predictions = created_forecast
    /\ \E l \in Labels : ~DEq(created_forecast[l], data[Len(data)])

(***************************************************************************)
(* Properties of the prediction history, checked under SpecLog.            *)
(***************************************************************************)
\* the entries the first call found; a missing or corrupt file has none
EntriesBefore == IF history_before.kind = "json" THEN history_before.entries ELSE <<>>

\* every entry there has been, in order: the stored ones, then one per call
AllEntries == EntriesBefore \o [k \in 1 .. calls |-> CallEntry(k)]

\* C21: after any sequence of save_prediction_log calls from any stored
\* history the file has at most 100 entries, its last entry is that of the
\* latest call, and it holds exactly the most recent min(n, 100) of all
\* entries in their original order.
C21_AppendThenTruncate ==
    (callee = "save_prediction_log" /\ calls >= 1 /\ error = "") =>
        LET h == prediction_history.entries
            n == Len(AllEntries)
            m == Min(n, HistoryCap)
        IN  /\ prediction_history.kind = "json"
            /\ Len(h) = m
            /\ Len(h) <= HistoryCap
            /\ h[Len(h)] = CallEntry(calls)
            /\ \A i \in 1 .. m : h[i] = AllEntries[n - m + i]

\* a stored history longer than the cap, after several calls
C21_Witness ==
    /\ callee = "save_prediction_log"
    /\ calls >= 2
    /\ error = ""
    /\ Len(EntriesBefore) > HistoryCap
    /\ Len(prediction_history.entries) = HistoryCap
    /\ prediction_history.entries[1] = StoredEntry(Len(EntriesBefore) + calls - HistoryCap + 1)

\* a history that grows without reaching the cap
C21_WitnessShort ==
    /\ callee = "save_prediction_log"
    /\ calls = 2
    /\ Len(EntriesBefore) = 1
    /\ prediction_history.entries = <<StoredEntry(1), CallEntry(1), CallEntry(2)>>

\* the frame handed to save_prediction_log has a row and a Volume column,
\* so that log_entry can be built
LoggableFrame == Len(data) > 0 /\ volume # NoColumn

\* C29: save_prediction_log never fails because of what the history file
\* holds; a missing file or one that is not valid JSON counts as an empty
\* history, so that after the call the file holds exactly the new entry.
C29_NeverFailsOnContent ==
    (callee = "save_prediction_log" /\ calls >= 1 /\ LoggableFrame /\ docs_dir) =>
        /\ error = ""
        /\ (calls = 1 /\ history_before.kind # "json") =>
               prediction_history = [kind |-> "json", entries |-> <<CallEntry(1)>>]

\* what does hold in a directory docs/ that exists: a missing file and text
\* that is not JSON are replaced by a history of the one new entry; a JSON
\* value that is not a list and undecodable bytes make the call raise and
\* stay in the file
C29_HandledContent ==
    (callee = "save_prediction_log" /\ calls >= 1 /\ LoggableFrame /\ docs_dir) =>
        /\ history_before.kind \in {"absent", "corrupt", "json"} => error = ""
        /\ (calls = 1 /\ history_before.kind \in {"absent", "corrupt"}) =>
               prediction_history = [kind |-> "json", entries |-> <<CallEntry(1)>>]
        /\ history_before = NotAList =>
               (error = "AttributeError" /\ prediction_history = NotAList)
        /\ history_before = Undecodable =>
               (error = "UnicodeDecodeError" /\ prediction_history = Undecodable)

\* without docs/ the call writes nothing: open raises FileNotFoundError
C29_NoDirectory ==
    (callee = "save_prediction_log" /\ calls >= 1 /\ LoggableFrame /\ ~docs_dir) =>
        (error = "FileNotFoundError" /\ prediction_history = Absent /\ pc = "raised")

\* a frame without rows or without the Volume column ends the call before
\* the file is read
C29_FrameErrors ==
    (callee = "save_prediction_log" /\ calls >= 1 /\ ~LoggableFrame) =>
        /\ error = (IF Len(data) = 0 THEN "IndexError" ELSE "KeyError")
        /\ prediction_history = history_before

\* a call in a place without docs/ has raised FileNotFoundError
C29_WitnessNoDirectory ==
    /\ callee = "save_prediction_log"
    /\ pc = "raised"
    /\ LoggableFrame
    /\ ~docs_dir
    /\ error = "FileNotFoundError"

\* a call on a frame without the Volume column has raised KeyError
C29_WitnessNoVolume ==
    /\ callee = "save_prediction_log"
    /\ pc = "raised"
    /\ volume = NoColumn
    /\ error = "KeyError"

C29_WitnessNotAList ==
    /\ callee = "save_prediction_log"
    /\ pc = "raised"
    /\ history_before = NotAList
    /\ error = "AttributeError"

(***************************************************************************)
(* Properties of get_market_status, checked under SpecClock.               *)
(***************************************************************************)
\* the reading lies between 09:15:00 and 15:30:00, both limits included
InMarketHours(n) ==
    /\ n.second >= 9 * 3600 + 15 * 60
    /\ \/ n.second < 15 * 3600 + 30 * 60
       \/ n.second = 15 * 3600 + 30 * 60 /\ n.micro = 0

\* C24: get_market_status returns OPEN exactly when the day is Monday to
\* Friday and the time lies between 09:15:00 and 15:30:00, both included,
\* and CLOSED otherwise; there is no third status, and the colour is
\* '#28a745' iff the status is OPEN.  Both implementations.
C24_MarketStatus ==
    (pc = "returned" /\ callee \in {"get_market_status", "web.get_market_status"}) =>
        /\ market_status.status \in {"OPEN", "CLOSED"}
        /\ market_status.status = "OPEN" <=> (now.weekday \in 0 .. 4 /\ InMarketHours(now))
        /\ market_status.color = "#28a745" <=> market_status.status = "OPEN"
        /\ market_status.color = "#dc3545" <=> market_status.status = "CLOSED"

\* a Friday at 15:30:00 sharp is OPEN
C24_Witness ==
    /\ pc = "returned"
    /\ callee = "get_market_status"
    /\ now = Reading(4, 15 * 3600 + 30 * 60, 0)
    /\ market_status.status = "OPEN"

\* one microsecond later it is CLOSED, as is a Saturday at noon
C24_WitnessClosed ==
    /\ pc = "returned"
    /\ callee = "web.get_market_status"
    /\ now = Reading(4, 15 * 3600 + 30 * 60, 1)
    /\ market_status.status = "CLOSED"

C24_WitnessWeekend ==
    /\ pc = "returned"
    /\ now = Reading(5, 12 * 3600, 0)
    /\ market_status.status = "CLOSED"

(***************************************************************************)
(* Properties of the files a run leaves, checked under Spec.               *)
(***************************************************************************)
\* the run has ended, by returning or by raising
Finished == pc \in {"done", "raised"}

\* C26: when run_daily_prediction finishes, docs/index.html holds the
\* dashboard of this run if and only if the run returned True, and then
\* docs/data.json was written in this run too; whenever the run raises,
\* also after the dashboard was written, docs/index.html holds the error
\* page and not the dashboard.
C26_DashboardIffTrue ==
    (PredictorRun /\ Finished) =>
        /\ DashboardOfRun(index_html) <=> result = "True"
        /\ result = "True" => (ThisRun(data_json) /\ index_html = html_content)
        /\ result = "raised" <=> pc = "raised"
        /\ pc = "raised" => (ErrorPageOfRun(index_html) /\ ~DashboardOfRun(index_html))

\* save_data_json failed on a one-row series after the dashboard of the run
\* had been written; the error page has replaced it
C26_Witness ==
    /\ PredictorRun
    /\ pc = "raised"
    /\ error = "IndexError"
    /\ Len(data) = 1
    /\ html_content.kind = "dashboard"
    /\ index_html = generate_error_page(error)
    /\ ~ThisRun(data_json)

C26_WitnessTrue ==
    /\ PredictorRun
    /\ pc = "done"
    /\ result = "True"
    /\ index_html = html_content
    /\ ThisRun(data_json)

\* the entries of a history file, none for a file that is not a history
EntriesOf(h) == IF h.kind = "json" THEN h.entries ELSE <<>>

\* C28: in the script.py pipeline an entry is appended to the history only
\* after the dashboard of the same run was generated: a run that fails
\* leaves docs/prediction_history.json unchanged, and a run that succeeds
\* appends exactly one entry.
C28_HistoryAfterDashboard ==
    ScriptRun =>
        /\ pc # "done" => prediction_history = history_before
        /\ prediction_history # history_before =>
               (DashboardOfRun(index_html) /\ ThisRun(data_json) /\ error = "")
        /\ pc = "done" =>
               /\ prediction_history.kind = "json"
               /\ prediction_history.entries
                      = LastEntries(Append(EntriesOf(history_before),
                                           log_entry(predictions, data, volume, "this")))
               /\ Cardinality({i \in DOMAIN prediction_history.entries :
                                   prediction_history.entries[i].timestamp = "this"}) = 1

\* a run that succeeded on top of an earlier history
C28_Witness ==
    /\ ScriptRun
    /\ pc = "done"
    /\ history_before = EarlierHistory
    /\ prediction_history.entries = <<EarlierEntry, log_entry(predictions, data, volume, "this")>>
    /\ DashboardOfRun(index_html)

\* a run that failed in the dashboard generation, for want of the template,
\* and left the history alone
C28_WitnessFailed ==
    /\ ScriptRun
    /\ pc = "raised"
    /\ stages = <<"fetch", "trend", "prediction", "charts", "recommendation">>
    /\ history_before = EarlierHistory
    /\ prediction_history = EarlierHistory

\* the errors a run of predictor.py can end with
RunErrors == {"ProviderError", "ValueError", "IndexError"}

\* C30: the error page of predictor.py's generate_error_page does not depend
\* on the error message, no exception text is published; the page text of
\* the script.py variant embeds the message (that variant then fails before
\* it writes the text to docs/index.html).
C30_MessageNotPublished ==
    /\ \A e \in RunErrors : generate_error_page(e) = generate_error_page("ProviderError")
    /\ (PredictorRun /\ pc = "raised") =>
           (error \in RunErrors /\ index_html = ErrorPage("") /\ index_html.message # error)
    /\ \A e \in RunErrors :
           script_generate_error_page(e, index_html).error_html.message = e
    /\ (ScriptRun /\ pc = "raised") => ~ErrorPageOfRun(index_html)

\* a run of predictor.py that failed with the no-data message
C30_Witness ==
    /\ PredictorRun
    /\ pc = "raised"
    /\ error = "ValueError"
    /\ index_html.message = ""

\* a failed run of the script.py variant: the earlier dashboard is still in
\* docs/index.html
C30_WitnessScript ==
    /\ ScriptRun
    /\ pc = "raised"
    /\ error = "NameError"
    /\ index_html = EarlierDashboard

(***************************************************************************)
(* Properties of the 'Generate dashboard' step, checked under Spec.        *)
(***************************************************************************)
\* what the step is meant to leave: it completed, with the dashboard of the
\* run when run_daily_prediction returned and the placeholder page when it
\* raised
StepOutcome ==
    /\ job = "completed"
    /\ index_html.kind # "absent"
    /\ result # "raised" => DashboardOfRun(index_html)
    /\ result = "raised" => index_html = FallbackPage

\* C23: the scheduled job never crashes on a prediction failure: when
\* run_daily_prediction raises, the 'Generate dashboard' step catches the
\* exception and writes the placeholder page, so the step completes and
\* docs/index.html exists after the step in every outcome, the dashboard on
\* success and the placeholder on failure.
C23_StepNeverCrashes ==
    /\ job # "failed"
    /\ (job # "" /\ pc = "exit") => StepOutcome

\* the step with the text of the listing taken as it stands behaves in that
\* way
C23_AsListed ==
    (job_script = StepListing) =>
        /\ job # "failed"
        /\ pc = "exit" => StepOutcome
        /\ (job = "running" /\ pc = "raised") => ENABLED StepExcept

\* the step of the file that create_project_structure writes ends in the
\* SyntaxError before run_daily_prediction is called, whatever the run would
\* have done
C23_AsWritten ==
    (job_script = WrittenStep) =>
        /\ job \in {"start", "failed"}
        /\ stages = <<>>
        /\ fetch_count = 0
        /\ index_html \in {d.index_html : d \in InitialDocs}
        /\ job = "failed" <=> (pc = "exit" /\ error = "SyntaxError")

\* the written step has failed in a checkout that holds no docs/index.html
C23_WitnessCrash ==
    /\ job = "failed"
    /\ job_script = WrittenStep
    /\ index_html = Absent

\* the listed step has caught a failed run and written the placeholder
C23_WitnessCaught ==
    /\ job = "completed"
    /\ job_script = StepListing
    /\ result = "raised"
    /\ index_html = FallbackPage

====
